---- MODULE Spec2Model ----
(***************************************************************************)
(* Model of the raycasting core of Might of the Beholder.                  *)
(*                                                                         *)
(* Numbers.  A JavaScript number is modelled as a fixed-point integer: the *)
(* integer v stands for the real v / Scale.  The inputs are chosen so that *)
(* every product, quotient and square root the code takes is exact on this *)
(* grid: origins lie on multiples of 1/Res, and (cos, sin) is one of the   *)
(* axis directions or of the 3-4-5 directions.  The IEEE special values    *)
(* +Infinity, -Infinity and NaN are kept (1/0, 0*Infinity, comparisons     *)
(* with NaN), every zero is +0.  Math.cos and Math.sin are a table: the     *)
(* directions with cos = 0 or sin = 0 are the exactly axis-aligned rays.   *)
(***************************************************************************)
EXTENDS Integers, Sequences, FiniteSets, TLC

\* ---------------------------------------------------------------- bounds
Res == 2            \* origins lie on multiples of 1/Res of a cell
OriginMax == 5      \* origins range over [-1/Res, OriginMax] on both axes
MaxCasts == 2       \* how often the same ray is cast again
LongLen == 104      \* mapWidth of the corridor level

Scale == 60 * Res   \* fixed-point units per 1.0

\* ------------------------------------------------- IEEE-754 special values
Inf == 1000000000
NaN == 2000000000
NegInf == 0 - Inf
Undefined == 999999     \* the value of an array read outside the array

IsNaN(a) == a = NaN
IsFin(a) == a # NaN /\ a # Inf /\ a # NegInf

FNeg(a) == IF IsNaN(a) THEN NaN ELSE 0 - a

FAbs(a) == IF IsNaN(a) THEN NaN ELSE IF a < 0 THEN 0 - a ELSE a

FAdd(a, b) ==
  IF IsNaN(a) \/ IsNaN(b) THEN NaN
  ELSE IF (a = Inf /\ b = NegInf) \/ (a = NegInf /\ b = Inf) THEN NaN
  ELSE IF a = Inf \/ b = Inf THEN Inf
  ELSE IF a = NegInf \/ b = NegInf THEN NegInf
  ELSE a + b

FSub(a, b) == FAdd(a, FNeg(b))

Sign(a) == IF a < 0 THEN 0 - 1 ELSE 1

FMul(a, b) ==
  IF IsNaN(a) \/ IsNaN(b) THEN NaN
  ELSE IF ~IsFin(a) \/ ~IsFin(b)
       THEN IF a = 0 \/ b = 0 THEN NaN
            ELSE IF Sign(a) * Sign(b) > 0 THEN Inf ELSE NegInf
  ELSE (a * b) \div Scale

FDiv(a, b) ==
  IF IsNaN(a) \/ IsNaN(b) THEN NaN
  ELSE IF ~IsFin(a) /\ ~IsFin(b) THEN NaN
  ELSE IF ~IsFin(b) THEN 0
  ELSE IF ~IsFin(a) THEN (IF Sign(a) * Sign(b) > 0 THEN Inf ELSE NegInf)
  ELSE IF b = 0 THEN (IF a = 0 THEN NaN ELSE IF a > 0 THEN Inf ELSE NegInf)
  ELSE (a * Scale) \div b

\* a < b, a >= b, ... of JavaScript: false as soon as one side is NaN
FLt(a, b) == ~IsNaN(a) /\ ~IsNaN(b) /\ a < b
FGt(a, b) == FLt(b, a)
FGe(a, b) == ~IsNaN(a) /\ ~IsNaN(b) /\ a >= b

\* Math.floor
FFloor(a) == IF IsFin(a) THEN (a \div Scale) * Scale ELSE a

\* the largest integer between st[2] and st[3] whose square is at most st[1]
SqrtSearch[st \in Seq(Int)] ==
  LET n   == st[1]
      lo  == st[2]
      hi  == st[3]
      mid == (lo + hi + 1) \div 2
  IN  IF lo >= hi THEN lo
      ELSE IF mid * mid <= n THEN SqrtSearch[<< n, mid, hi >>]
           ELSE SqrtSearch[<< n, lo, mid - 1 >>]

\* Math.sqrt(dx*dx + dy*dy) of two fixed-point numbers
Hypot(dx, dy) ==
  IF IsNaN(dx) \/ IsNaN(dy) THEN NaN
  ELSE IF ~IsFin(dx) \/ ~IsFin(dy) THEN Inf
  ELSE SqrtSearch[<< dx * dx + dy * dy, 0, 46340 >>]

\* ------------------------------------------------------------- directions
\* An angle is an index into Directions; <<c, s, d>> means cos = c/d, sin = s/d.
Directions ==
  << <<1, 0, 1>>, <<0, 1, 1>>, <<0 - 1, 0, 1>>, <<0, 0 - 1, 1>>,
     <<3, 4, 5>>, <<4, 3, 5>>, <<0 - 3, 4, 5>>, <<0 - 4, 3, 5>>,
     <<3, 0 - 4, 5>>, <<4, 0 - 3, 5>>, <<0 - 3, 0 - 4, 5>>, <<0 - 4, 0 - 3, 5>> >>

Angles == 1..Len(Directions)

Cos(a) == (Directions[a][1] * Scale) \div Directions[a][3]
Sin(a) == (Directions[a][2] * Scale) \div Directions[a][3]
Tan(a) == FDiv(Sin(a), Cos(a))

\* ------------------------------------------------------------------ levels
FLOOR == 0
WALL == 1
EXIT == 2

\* a ring of walls around a room with a pillar and an exit
RoomMap ==
  << <<1, 1, 1, 1, 1>>,
     <<1, 0, 0, 0, 1>>,
     <<1, 0, 1, 0, 1>>,
     <<1, 0, 0, 2, 1>>,
     <<1, 1, 1, 1, 1>> >>

\* a level whose floor reaches the edge of the grid
OpenMap ==
  << <<0, 0, 0, 0>>,
     <<0, 1, 0, 0>>,
     <<0, 0, 0, 2>>,
     <<1, 0, 0, 0>> >>

\* a level holding cell codes outside {FLOOR, WALL, EXIT}
OddMap ==
  << <<1, 1, 1, 1, 1>>,
     <<1, 0, 0, 0 - 1, 1>>,
     <<1, 0, 3, 0, 1>>,
     <<1, 0 - 1, 0, 0, 1>>,
     <<1, 1, 1, 1, 1>> >>

\* one row of floor, LongLen - 2 cells long, inside a ring of walls
CorridorMap ==
  << [x \in 1..LongLen |-> 1],
     [x \in 1..LongLen |-> IF x = 1 \/ x = LongLen THEN 1 ELSE 0],
     [x \in 1..LongLen |-> 1] >>

Levels == {RoomMap, OpenMap, OddMap, CorridorMap}

VARIABLES
  worldMap, mapWidth, mapHeight,      \* the level (globals of the engine)
  pc,                                 \* "idle", "loop" (inside castRay), "done"
  px, py, angle,                      \* arguments of castRay
  mapX, mapY, sideDistX, sideDistY,   \* locals of castRay
  distance, hit, hitVertical, tileType, textureX,
  iter,                               \* iterations of the DDA loop so far
  path,                               \* cells the DDA loop has stepped into
  crossed,                            \* sideDist of the axis advanced last, before its increment
  badIndex,                           \* worldMap was read outside the grid
  casts, prev,                        \* casts of the current ray, result of the cast before
  trig,                               \* result of the castRay of the projectile system
  qpc,                                \* "idle", "seen" (one query answered), "answered"
  viewer, entity,                     \* the two parties of a query: this / player and the other
  seen, seenBack,                     \* isInLineOfSight of viewer to entity, and back
  shown,                              \* what Entity.render has put on the screen
  player,                             \* the player object of the engine
  now,                                \* performance.now()
  dpc,                                \* "unset", "idle", "drawing" (inside draw3DView), "rendered"
  col, cols,                          \* draw3DView: columns done, what each was drawn from
  frameAt,                            \* where the player was when draw3DView began
  walls,                              \* what renderRaycastedWalls has computed
  lpc,                                \* where loadLevel and initDefaultWorldMap stand
  levelInfo,                          \* what getLevel has returned to loadLevel
  currentLevel,                       \* the level data of the engine
  window,                             \* window.worldMap, window.mapWidth, window.mapHeight
  fpc,                                \* "idle", "monsters", "projectiles" (inside updateGame)
  worldMapCopy,                       \* the local of updateGame
  reads,                              \* the maps the updates of this frame have read
  monster,                            \* a Monster of the entity manager
  projectile,                         \* a Projectile of the entity manager
  entities, typeLookup                \* the two tables of the EntityManager

castVars == << pc, px, py, angle, mapX, mapY, sideDistX, sideDistY, distance, hit,
               hitVertical, tileType, textureX, iter, path, crossed, badIndex,
               casts, prev, trig >>

viewVars == << qpc, viewer, entity, seen, seenBack, shown >>

drawVars == << player, now, dpc, col, cols, frameAt, walls >>

loadVars == << lpc, levelInfo, currentLevel, window, fpc, worldMapCopy, reads >>

gameVars == << monster, projectile, entities, typeLookup >>

vars == << worldMap, mapWidth, mapHeight, castVars, viewVars, drawVars, loadVars,
          gameVars >>

None == [none |-> TRUE]
Nobody == [x |-> 0, y |-> 0, angle |-> 0]                \* no viewer yet
Nothing == [x |-> 0, y |-> 0, visible |-> TRUE]          \* no entity yet
NoPlayer == [x |-> 0, y |-> 0, direction |-> 1, angle |-> 0, isMoving |-> FALSE,
             moveStartTime |-> 0, startX |-> 0, startY |-> 0, endX |-> 0, endY |-> 0,
             isTurning |-> FALSE, turnStartTime |-> 0, startAngle |-> 0, endAngle |-> 0]

\* worldMap[y][x] of JavaScript for integers x, y (0-based)
ReadMap(x, y) ==
  IF y < 0 \/ y >= Len(worldMap) THEN Undefined
  ELSE IF x < 0 \/ x >= Len(worldMap[y + 1]) THEN Undefined
  ELSE worldMap[y + 1][x + 1]

InGrid(x, y) == x >= 0 /\ y >= 0 /\ x < Len(worldMap[1]) /\ y < Len(worldMap)

\* ------------------------------------------------------- castRay (DDA)
deltaDistX == FAbs(FDiv(Scale, Cos(angle)))
deltaDistY == FAbs(FDiv(Scale, Sin(angle)))
stepX == IF FLt(Cos(angle), 0) THEN 0 - 1 ELSE 1
stepY == IF FLt(Sin(angle), 0) THEN 0 - 1 ELSE 1

CellOf(p) == p \div Scale

\* InitSideDist with the direction test written <= instead of <
InitSideDistLe(p, c, dd) ==
  IF ~IsNaN(c) /\ c <= 0 THEN FMul(p - CellOf(p) * Scale, dd)
  ELSE FMul((CellOf(p) + 1) * Scale - p, dd)

InitSideDist(p, c, dd) ==
  IF FLt(c, 0) THEN FMul(p - CellOf(p) * Scale, dd)
  ELSE FMul((CellOf(p) + 1) * Scale - p, dd)

MaxViewDistance == 50

Origins == {k * (Scale \div Res) : k \in (0 - 1)..(OriginMax * Res)}

BeginCast(x, y, a) ==
  /\ px' = x /\ py' = y /\ angle' = a
  /\ mapX' = CellOf(x) /\ mapY' = CellOf(y)
  /\ sideDistX' = InitSideDist(x, Cos(a), FAbs(FDiv(Scale, Cos(a))))
  /\ sideDistY' = InitSideDist(y, Sin(a), FAbs(FDiv(Scale, Sin(a))))
  /\ distance' = 0 /\ hit' = FALSE /\ hitVertical' = FALSE /\ tileType' = 1
  /\ textureX' = 0
  /\ iter' = 0 /\ path' = << >> /\ crossed' = 0
  /\ pc' = "loop"

\* a call castRay(x, y, a) with fresh arguments
CastRay ==
  /\ pc = "idle"
  /\ \E x \in Origins, y \in Origins, a \in Angles : BeginCast(x, y, a)
  /\ casts' = 1 /\ prev' = None /\ trig' = None
  /\ UNCHANGED << gameVars, worldMap, mapWidth, mapHeight, loadVars, badIndex, viewVars, drawVars >>

\* AdvanceX with ties broken by a counter that outlives the call
AdvanceXAlternating ==
  IF sideDistX = sideDistY THEN casts % 2 = 0 ELSE FLt(sideDistX, sideDistY)

\* the test of the DDA loop on which axis to advance
AdvanceX == FLt(sideDistX, sideDistY)

\* HitDistance taken after the increment of sideDist
HitDistancePast(sd, dd) == FAdd(sd, dd)

\* the distance recorded when an axis is advanced
HitDistance(sd, dd) == sd

\* OutOfBounds without the test against mapHeight
OutOfBoundsNoBottom(x, y) == x < 0 \/ y < 0 \/ x >= mapWidth

\* the test of the DDA loop that the ray has left the grid
OutOfBounds(x, y) == x < 0 \/ y < 0 \/ x >= mapWidth \/ y >= mapHeight

\* the test of the DDA loop that a cell stops the ray
IsWallCell(c) == c # Undefined /\ c >= 1

\* one iteration of while (!hit)
DDAStep ==
  /\ pc = "loop" /\ ~hit
  /\ LET ax == AdvanceX
         nx == IF ax THEN mapX + stepX ELSE mapX
         ny == IF ax THEN mapY ELSE mapY + stepY
         d  == IF ax THEN HitDistance(sideDistX, deltaDistX)
               ELSE HitDistance(sideDistY, deltaDistY)
         oob == OutOfBounds(nx, ny)
         c  == ReadMap(nx, ny)
     IN  /\ mapX' = nx /\ mapY' = ny
         /\ crossed' = IF ax THEN sideDistX ELSE sideDistY
         /\ sideDistX' = IF ax THEN FAdd(sideDistX, deltaDistX) ELSE sideDistX
         /\ sideDistY' = IF ax THEN sideDistY ELSE FAdd(sideDistY, deltaDistY)
         /\ hitVertical' = ax
         /\ hit' = (oob \/ IsWallCell(c))
         /\ distance' = IF oob THEN MaxViewDistance * Scale ELSE d
         /\ tileType' = IF ~oob /\ IsWallCell(c) THEN c ELSE tileType
         /\ badIndex' = (badIndex \/ (~oob /\ ~InGrid(nx, ny)))
         /\ path' = Append(path, << nx, ny >>)
         /\ iter' = iter + 1
  /\ UNCHANGED << gameVars, worldMap, mapWidth, mapHeight, loadVars, pc, px, py, angle, textureX,
                  casts, prev, trig, viewVars, drawVars >>

Frac(a) == FSub(a, FFloor(a))

\* the mirroring of the texture coordinate
Mirror(t, hv, c, s) ==
  LET t1 == IF hv /\ FGt(c, 0) THEN FSub(Scale, t) ELSE t
  IN  IF ~hv /\ FLt(s, 0) THEN FSub(Scale, t1) ELSE t1

TextureCoord ==
  LET hitX == FAdd(px, FMul(distance, Cos(angle)))
      hitY == FAdd(py, FMul(distance, Sin(angle)))
  IN  Mirror(IF hitVertical THEN Frac(hitY) ELSE Frac(hitX),
             hitVertical, Cos(angle), Sin(angle))

Result ==
  [distance |-> distance, hitVertical |-> hitVertical,
   tileType |-> tileType, textureX |-> textureX]

\* the end of castRay: texture coordinate and return
FinishCast ==
  /\ pc = "loop" /\ hit
  /\ textureX' = TextureCoord
  /\ pc' = "done"
  /\ UNCHANGED << gameVars, worldMap, mapWidth, mapHeight, loadVars, px, py, angle, mapX, mapY,
                  sideDistX, sideDistY, distance, hit, hitVertical, tileType,
                  iter, path, crossed, badIndex, casts, prev, trig, viewVars, drawVars >>

\* castRay is called again with the same arguments on the same level
CastAgain ==
  /\ pc = "done" /\ casts < MaxCasts
  /\ BeginCast(px, py, angle)
  /\ casts' = casts + 1
  /\ prev' = Result
  /\ trig' = None
  /\ UNCHANGED << gameVars, worldMap, mapWidth, mapHeight, loadVars, badIndex, viewVars, drawVars >>

\* ------------------------------- castRay of the projectile system (ray marching)
IterationCap == 100

Miss(dir, nx, ny) ==
  [distance |-> Inf, wallType |-> 0, direction |-> dir, x |-> nx, y |-> ny, threw |-> FALSE]

\* the for loop of castHorizontalRay from iteration i on
RECURSIVE HorizontalLoop(_, _, _, _, _, _, _)
HorizontalLoop(i, nextX, nextY, x, y, dirY, hStepX) ==
  LET dir == IF dirY > 0 THEN "north" ELSE "south"
      cy  == IF dirY > 0 THEN nextY \div Scale ELSE (nextY \div Scale) - 1
      fx  == FFloor(nextX)
      cell == IF IsFin(fx) THEN ReadMap(fx \div Scale, cy) ELSE Undefined
  IN  IF i >= IterationCap THEN Miss(dir, nextX, nextY)
      ELSE IF FLt(fx, 0) \/ cy < 0 \/ FGe(fx, mapWidth * Scale) \/ cy >= mapHeight
           THEN Miss(dir, nextX, nextY)
      ELSE IF cell # 0
           THEN [distance |-> Hypot(FSub(nextX, x), nextY - y), wallType |-> cell,
                 direction |-> dir, x |-> nextX, y |-> nextY, threw |-> FALSE]
      ELSE HorizontalLoop(i + 1, FAdd(nextX, hStepX), nextY + dirY * Scale,
                          x, y, dirY, hStepX)

castHorizontalRay(x, y, a) ==
  LET dirY   == IF FGt(Sin(a), 0) THEN 1 ELSE 0 - 1
      firstY == IF dirY > 0 THEN FFloor(y) + Scale ELSE FFloor(y)
      firstX == FAdd(x, FDiv(firstY - y, Tan(a)))
  IN  HorizontalLoop(0, firstX, firstY, x, y, dirY, FDiv(dirY * Scale, Tan(a)))

\* the for loop of castVerticalRay from iteration i on; reading worldMap[NaN][mapX]
\* is a read of a property of undefined, which throws a TypeError
RECURSIVE VerticalLoop(_, _, _, _, _, _, _)
VerticalLoop(i, nextX, nextY, x, y, dirX, vStepY) ==
  LET dir == IF dirX > 0 THEN "west" ELSE "east"
      cx  == IF dirX > 0 THEN nextX \div Scale ELSE (nextX \div Scale) - 1
      fy  == FFloor(nextY)
      cell == IF IsFin(fy) THEN ReadMap(cx, fy \div Scale) ELSE Undefined
  IN  IF i >= IterationCap THEN Miss(dir, nextX, nextY)
      ELSE IF cx < 0 \/ FLt(fy, 0) \/ cx >= mapWidth \/ FGe(fy, mapHeight * Scale)
           THEN Miss(dir, nextX, nextY)
      ELSE IF IsNaN(fy)
           THEN [distance |-> NaN, wallType |-> Undefined, direction |-> dir,
                 x |-> nextX, y |-> nextY, threw |-> TRUE]
      ELSE IF cell # 0
           THEN [distance |-> Hypot(nextX - x, FSub(nextY, y)), wallType |-> cell,
                 direction |-> dir, x |-> nextX, y |-> nextY, threw |-> FALSE]
      ELSE VerticalLoop(i + 1, nextX + dirX * Scale, FAdd(nextY, vStepY),
                        x, y, dirX, vStepY)

castVerticalRay(x, y, a) ==
  LET dirX   == IF FGt(Cos(a), 0) THEN 1 ELSE 0 - 1
      firstX == IF dirX > 0 THEN FFloor(x) + Scale ELSE FFloor(x)
      firstY == FAdd(y, FMul(firstX - x, Tan(a)))
  IN  VerticalLoop(0, firstX, firstY, x, y, dirX, FMul(dirX * Scale, Tan(a)))

\* castRay of the projectile system: the closer of the two hits
castRayMarch(x, y, a) ==
  LET horizontalHit == castHorizontalRay(x, y, a)
      verticalHit   == castVerticalRay(x, y, a)
  IN  IF verticalHit.threw THEN verticalHit
      ELSE IF FLt(horizontalHit.distance, verticalHit.distance) THEN horizontalHit
      ELSE verticalHit

\* the projectile system casts the ray the DDA has just cast
MarchRay ==
  /\ pc = "done" /\ trig = None
  /\ trig' = castRayMarch(px, py, angle)
  /\ UNCHANGED << gameVars, worldMap, mapWidth, mapHeight, loadVars, pc, px, py, angle, mapX, mapY,
                  sideDistX, sideDistY, distance, hit, hitVertical, tileType,
                  textureX, iter, path, crossed, badIndex, casts, prev, viewVars, drawVars >>

\* the caller is done with the returned ray; the locals of castRay are gone
DropResult ==
  /\ pc = "done"
  /\ pc' = "idle"
  /\ px' = 0 /\ py' = 0 /\ angle' = 1
  /\ mapX' = 0 /\ mapY' = 0 /\ sideDistX' = 0 /\ sideDistY' = 0
  /\ distance' = 0 /\ hit' = FALSE /\ hitVertical' = FALSE /\ tileType' = 1
  /\ textureX' = 0 /\ iter' = 0 /\ path' = << >> /\ crossed' = 0
  /\ casts' = 0 /\ prev' = None /\ trig' = None
  /\ UNCHANGED << gameVars, worldMap, mapWidth, mapHeight, loadVars, badIndex, viewVars, drawVars >>

Init ==
  /\ worldMap \in Levels
  /\ mapWidth = Len(worldMap[1]) /\ mapHeight = Len(worldMap)
  /\ pc = "idle"
  /\ px = 0 /\ py = 0 /\ angle = 1
  /\ mapX = 0 /\ mapY = 0 /\ sideDistX = 0 /\ sideDistY = 0
  /\ distance = 0 /\ hit = FALSE /\ hitVertical = FALSE /\ tileType = 1
  /\ textureX = 0 /\ iter = 0 /\ path = << >> /\ crossed = 0
  /\ badIndex = FALSE /\ casts = 0 /\ prev = None /\ trig = None
  /\ qpc = "idle"
  /\ viewer = Nobody /\ entity = Nothing
  /\ seen = None /\ seenBack = None /\ shown = None
  /\ player = NoPlayer /\ now = 0 /\ dpc = "unset"
  /\ col = 0 /\ cols = << >> /\ frameAt = None /\ walls = None
  /\ lpc = "idle" /\ levelInfo = None /\ currentLevel = None
  /\ window = [worldMap |-> worldMap, mapWidth |-> mapWidth, mapHeight |-> mapHeight]
  /\ fpc = "idle" /\ worldMapCopy = None /\ reads = << >>
  /\ monster = None /\ projectile = None /\ entities = << >> /\ typeLookup = << >>

Next == CastRay \/ DDAStep \/ FinishCast \/ CastAgain \/ MarchRay \/ DropResult

Spec == Init /\ [][Next]_vars

\* ------------------------------------------- castRay as the callers see it
\* the while loop of castRay from the state st = <<mapX, mapY, sideDistX, sideDistY>> on,
\* for a ray whose angle has the cosine st[5] and the sine st[6]
DDALoopAlong[st \in Seq(Int)] ==
  LET mx  == st[1]
      my  == st[2]
      sdx == st[3]
      sdy == st[4]
      c   == st[5]
      s   == st[6]
      ddx == FAbs(FDiv(Scale, c))
      ddy == FAbs(FDiv(Scale, s))
      ax  == FLt(sdx, sdy)
      nx  == IF ax THEN mx + (IF FLt(c, 0) THEN 0 - 1 ELSE 1) ELSE mx
      ny  == IF ax THEN my ELSE my + (IF FLt(s, 0) THEN 0 - 1 ELSE 1)
      d   == IF ax THEN HitDistance(sdx, ddx) ELSE HitDistance(sdy, ddy)
      t   == ReadMap(nx, ny)
  IN  IF OutOfBounds(nx, ny) \/ IsWallCell(t)
      THEN [distance |-> IF OutOfBounds(nx, ny) THEN MaxViewDistance * Scale ELSE d,
            hitVertical |-> ax,
            tileType |-> IF OutOfBounds(nx, ny) THEN 1 ELSE t]
      ELSE DDALoopAlong[<< nx, ny, IF ax THEN FAdd(sdx, ddx) ELSE sdx,
                           IF ax THEN sdy ELSE FAdd(sdy, ddy), c, s >>]

\* the while loop of castRay for the angle a of the table
DDALoop(mx, my, sdx, sdy, a) == DDALoopAlong[<< mx, my, sdx, sdy, Cos(a), Sin(a) >>]

\* the value castRay returns for a ray whose angle has the cosine c and the sine s
castRayAlong(x, y, c, s) ==
  LET r == DDALoopAlong[<< CellOf(x), CellOf(y),
                           InitSideDist(x, c, FAbs(FDiv(Scale, c))),
                           InitSideDist(y, s, FAbs(FDiv(Scale, s))), c, s >>]
      hitX == FAdd(x, FMul(r.distance, c))
      hitY == FAdd(y, FMul(r.distance, s))
  IN  [distance |-> r.distance, hitVertical |-> r.hitVertical, tileType |-> r.tileType,
       textureX |-> Mirror(IF r.hitVertical THEN Frac(hitY) ELSE Frac(hitX),
                           r.hitVertical, c, s)]

\* the value castRay(x, y, a) returns
castRay(x, y, a) == castRayAlong(x, y, Cos(a), Sin(a))

\* ------------------------------------------------------ Entity (entity.js)
\* Math.atan2(dy, dx) for a vector along one of the Directions; atan2(0, 0) is 0
Atan2(dy, dx) ==
  IF dx = 0 /\ dy = 0 THEN 1
  ELSE CHOOSE a \in Angles :
         /\ dx * Directions[a][2] = dy * Directions[a][1]
         /\ dx * Directions[a][1] + dy * Directions[a][2] > 0

\* this.x - (entity.x || entity): a zero entity.x makes the subtrahend the object
distanceTo(this, e) ==
  LET dx == FSub(this.x, IF e.x = 0 THEN NaN ELSE e.x)
      dy == FSub(this.y, e.y)
  IN  Hypot(dx, dy)

\* angleTo with the two ends of the difference swapped
angleToReversed(this, e) == Atan2(this.y - e.y, this.x - e.x)

angleTo(this, e) == Atan2(e.y - this.y, e.x - this.x)

isInLineOfSight(this, e) ==
  LET a == angleTo(this, e)
      d == distanceTo(this, e)
      ray == castRay(this.x, this.y, a)
  IN  [value |-> FGe(ray.distance, d), angle |-> a, distance |-> d, ray |-> ray]

\* ---------------------------------------------------- angles as numbers
\* player.angle and the value of Math.atan2, in units of Math.PI / Pi
Pi == 18000
AngleOf ==
  << 0, 9000, 18000, 0 - 9000, 5313, 3687, 12687, 14313,
     0 - 5313, 0 - 3687, 0 - 12687, 0 - 14313 >>

\* the point at distance d from p in direction a
Along(p, a, d) == [x |-> p.x + (d * Directions[a][1]) \div Directions[a][3],
                   y |-> p.y + (d * Directions[a][2]) \div Directions[a][3]]

\* how far apart two entities stand
DistMax == 6
Dists == {k * (Scale \div Res) : k \in 0..DistMax}

\* the game has put an entity on a floor cell and another one somewhere around it
Meet ==
  /\ qpc = "idle"
  /\ \E x \in Origins, y \in Origins, a \in Angles, d \in Dists :
       LET this == [x |-> x, y |-> y, angle |-> 0]
           p    == Along(this, a, d)
       IN  /\ InGrid(CellOf(x), CellOf(y)) /\ ReadMap(CellOf(x), CellOf(y)) = FLOOR
           /\ viewer' = this
           /\ entity' = [x |-> p.x, y |-> p.y, visible |-> TRUE]
  /\ qpc' = "met"
  /\ UNCHANGED << gameVars, worldMap, mapWidth, mapHeight, loadVars, castVars, drawVars,
                  seen, seenBack, shown >>

\* LineOfSight that turns the asking entity towards the other one
LineOfSightFacing ==
  /\ qpc = "met"
  /\ seen' = isInLineOfSight(viewer, entity)
  /\ viewer' = [viewer EXCEPT !.angle = AngleOf[angleTo(viewer, entity)]]
  /\ qpc' = "seen"
  /\ UNCHANGED << gameVars, worldMap, mapWidth, mapHeight, loadVars, castVars, drawVars,
                  entity, seenBack, shown >>

\* viewer.isInLineOfSight(entity, worldMap, castRay)
LineOfSight ==
  /\ qpc = "met"
  /\ seen' = isInLineOfSight(viewer, entity)
  /\ qpc' = "seen"
  /\ UNCHANGED << gameVars, worldMap, mapWidth, mapHeight, loadVars, castVars, drawVars,
                  viewer, entity, seenBack, shown >>

\* entity.isInLineOfSight(viewer, worldMap, castRay): the same query the other way round
LineOfSightBack ==
  /\ qpc = "seen"
  /\ seenBack' = isInLineOfSight(entity, viewer)
  /\ qpc' = "answered"
  /\ UNCHANGED << gameVars, worldMap, mapWidth, mapHeight, loadVars, castVars, drawVars,
                  viewer, entity, seen, shown >>

\* the caller is done with the answers; the parties stay where they are
Forget ==
  /\ qpc \in {"seen", "answered"}
  /\ qpc' = IF seen # None THEN "met" ELSE "looking"
  /\ seen' = None /\ seenBack' = None /\ shown' = None
  /\ UNCHANGED << gameVars, worldMap, mapWidth, mapHeight, loadVars, castVars, drawVars,
                  viewer, entity >>

\* ------------------------------------------------ Entity.render (entity.js)
fov == Pi \div 3
screenW == 1280
screenH == 720
OcclusionEpsilon == Scale \div 10

\* while (angleDiff > Math.PI) angleDiff -= 2 * Math.PI
RECURSIVE WhileAbovePi(_)
WhileAbovePi(d) == IF d > Pi THEN WhileAbovePi(d - 2 * Pi) ELSE d

\* while (angleDiff < -Math.PI) angleDiff += 2 * Math.PI
RECURSIVE WhileBelowPi(_)
WhileBelowPi(d) == IF d < 0 - Pi THEN WhileBelowPi(d + 2 * Pi) ELSE d

Half(a) == IF IsFin(a) THEN a \div 2 ELSE a

\* OutsideFov without Math.abs
OutsideFovOneSided(angleDiff) == angleDiff > fov \div 2

\* the test that ends render for an entity outside the field of view
OutsideFov(angleDiff) == FAbs(angleDiff) > fov \div 2

\* Occluded with a tolerance of a whole cell
OccludedByACell(rayDistance, dist) == FLt(rayDistance, FSub(dist, Scale))

\* the test that ends render for an entity behind a wall
Occluded(rayDistance, dist) == FLt(rayDistance, FSub(dist, OcclusionEpsilon))

\* ScreenX without the half screen width it starts from
ScreenXFromLeft(angleDiff) ==
  (angleDiff * (screenW \div 2) * Scale) \div (fov \div 2)

\* screenW / 2 + (angleDiff / (fov/2)) * (screenW / 2)
ScreenX(angleDiff) ==
  (screenW * Scale) \div 2 + (angleDiff * (screenW \div 2) * Scale) \div (fov \div 2)

\* what e.render(ctx, player, screenW, screenH, fov, castRay) draws; None when it returns early
render(e, pl) ==
  LET dx == e.x - pl.x
      dy == e.y - pl.y
      dist == Hypot(dx, dy)
      a == Atan2(dy, dx)
      angleDiff == WhileBelowPi(WhileAbovePi(AngleOf[a] - pl.angle))
      ray == castRay(pl.x, pl.y, a)
      scale == FDiv(Scale, dist)
      spriteHeight == Half(FMul(scale, screenH * Scale))
  IN  IF ~e.visible THEN None
      ELSE IF OutsideFov(angleDiff) THEN None
      ELSE IF Occluded(ray.distance, dist) THEN None
      ELSE [screenX |-> ScreenX(angleDiff),
            screenY |-> FSub((screenH * Scale) \div 2, Half(spriteHeight)),
            spriteHeight |-> spriteHeight,
            angleDiff |-> angleDiff, distance |-> dist, ray |-> ray]

\* where the player stands inside a cell, how it faces an entity, how far the entity is
Grain == Scale \div (5 * Res)
LookSteps == 18
Stands == Origins \cup {o + Grain : o \in Origins}
LookDists == {k * (Scale \div (12 * Res)) : k \in 0..LookSteps}
Facings(a) == {AngleOf[a] + k : k \in {0, 1 - fov \div 2, fov \div 2 + 1, 2 * Pi}}

\* the game has put the player on a floor cell, facing some way, and an entity around it
Look ==
  /\ qpc = "idle"
  /\ \E x \in Stands, y \in Origins, a \in Angles, d \in LookDists :
     \E f \in Facings(a) :
       LET p == Along([x |-> x, y |-> y], a, d)
       IN  /\ InGrid(CellOf(x), CellOf(y)) /\ ReadMap(CellOf(x), CellOf(y)) = FLOOR
           /\ viewer' = [x |-> x, y |-> y, angle |-> f]
           /\ entity' = [x |-> p.x, y |-> p.y, visible |-> TRUE]
  /\ qpc' = "looking"
  /\ UNCHANGED << gameVars, worldMap, mapWidth, mapHeight, loadVars, castVars, drawVars,
                  seen, seenBack, shown >>

\* entity.render(ctx, player, screenW, screenH, fov, castRay)
Render ==
  /\ qpc = "looking"
  /\ shown' = [drawn |-> render(entity, viewer)]
  /\ qpc' = "answered"
  /\ UNCHANGED << gameVars, worldMap, mapWidth, mapHeight, loadVars, castVars, drawVars,
                  viewer, entity, seen, seenBack >>

NextView == Meet \/ LineOfSight \/ LineOfSightBack \/ Look \/ Render \/ Forget

SpecView == Init /\ [][NextView]_vars

\* --------------------------------------- the player and the view (engine.js)
moveDuration == 200
turnDuration == 200
TickMs == 100       \* how far performance.now() advances between two readings
MaxNow == 2         \* performance.now() is followed for MaxNow * TickMs

dirToAngle(d) ==
  CASE d = 0 -> 0 - Pi \div 2
    [] d = 1 -> 0
    [] d = 2 -> Pi \div 2
    [] d = 3 -> Pi

dirDeltas(d) ==
  CASE d = 0 -> << 0, 0 - 1 >>
    [] d = 1 -> << 1, 0 >>
    [] d = 2 -> << 0, 1 >>
    [] d = 3 -> << 0 - 1, 0 >>

\* canMoveTo(nx, ny) on a level without monsters
canMoveTo(nx, ny) ==
  LET tileX == CellOf(nx)
      tileY == CellOf(ny)
  IN  /\ ~(tileX < 0 \/ tileY < 0 \/ tileX >= Len(worldMap[1]) \/ tileY >= Len(worldMap))
      /\ ~(worldMap[tileY + 1][tileX + 1] # 0)

\* Math.min(t / player.moveDuration, 1) at the time t after the start of the move
MoveFrac(t) ==
  LET f == (t * Scale) \div moveDuration IN IF f < Scale THEN f ELSE Scale

animX ==
  IF ~player.isMoving THEN player.x
  ELSE player.startX
         + ((player.endX - player.startX) * MoveFrac(now - player.moveStartTime)) \div Scale

animY ==
  IF ~player.isMoving THEN player.y
  ELSE player.startY
         + ((player.endY - player.startY) * MoveFrac(now - player.moveStartTime)) \div Scale

\* the level is parsed or loaded: the player stands on a floor cell, facing one of four ways
Spawn ==
  /\ dpc = "unset"
  /\ \E x \in Origins, y \in Origins, d \in 0..3 :
       /\ InGrid(CellOf(x), CellOf(y)) /\ ReadMap(CellOf(x), CellOf(y)) = FLOOR
       /\ player' = [NoPlayer EXCEPT !.x = x, !.y = y, !.direction = d,
                                     !.angle = dirToAngle(d)]
  /\ dpc' = "idle"
  /\ UNCHANGED << gameVars, worldMap, mapWidth, mapHeight, loadVars, castVars, viewVars,
                  now, col, cols, frameAt, walls >>

\* Busy that looks at the move animation only
BusyMovingOnly == player.isMoving

\* if (player.isMoving || player.isTurning) return;
Busy == player.isMoving \/ player.isTurning

\* moveForward, moveBackward, strafeLeft, strafeRight: turn is the number of
\* quarter turns from the way the player faces to the way it is to go
MoveKey ==
  /\ dpc = "idle"
  /\ \E turn \in 0..3 :
       LET delta == dirDeltas((player.direction + turn) % 4)
           tx == (CellOf(player.x) + delta[1]) * Scale + Scale \div 2
           ty == (CellOf(player.y) + delta[2]) * Scale + Scale \div 2
       IN  /\ canMoveTo(tx, ty)
           /\ player' = IF Busy THEN player
                        ELSE [player EXCEPT !.isMoving = TRUE, !.moveStartTime = now,
                                            !.startX = player.x, !.startY = player.y,
                                            !.endX = tx, !.endY = ty]
  /\ UNCHANGED << gameVars, worldMap, mapWidth, mapHeight, loadVars, castVars, viewVars,
                  now, dpc, col, cols, frameAt, walls >>

\* time passes, also while draw3DView runs
Tick ==
  /\ dpc \in {"idle", "drawing"}
  /\ now < MaxNow * TickMs
  /\ now' = now + TickMs
  /\ UNCHANGED << gameVars, worldMap, mapWidth, mapHeight, loadVars, castVars, viewVars,
                  player, dpc, col, cols, frameAt, walls >>

\* Math.min(e / player.turnDuration, 1) at the time e after the start of the turn
TurnFrac(e) ==
  LET f == (e * Scale) \div turnDuration IN IF f < Scale THEN f ELSE Scale

\* the turning part of updatePlayerAnimations
Turned(p) ==
  LET frac == TurnFrac(now - p.turnStartTime)
  IN  IF ~p.isTurning THEN p
      ELSE IF frac >= Scale THEN [p EXCEPT !.isTurning = FALSE, !.angle = p.endAngle]
      ELSE [p EXCEPT !.angle = p.startAngle + ((p.endAngle - p.startAngle) * frac) \div Scale]

\* the movement part of updatePlayerAnimations
Moved(p) ==
  IF p.isMoving /\ MoveFrac(now - p.moveStartTime) >= Scale
  THEN [p EXCEPT !.isMoving = FALSE, !.x = p.endX, !.y = p.endY]
  ELSE p

\* updatePlayerAnimations of a frame in which an animation goes on or ends
UpdatePlayerAnimations ==
  /\ dpc = "idle"
  /\ Moved(Turned(player)) # player
  /\ player' = Moved(Turned(player))
  /\ UNCHANGED << gameVars, worldMap, mapWidth, mapHeight, loadVars, castVars, viewVars,
                  now, dpc, col, cols, frameAt, walls >>

\* startTurnAnimation(newDir): the turn goes the shorter way round
startTurnAnimation(p, newDir) ==
  LET diff == dirToAngle(newDir) - p.angle
  IN  [p EXCEPT !.isTurning = TRUE, !.turnStartTime = now,
                !.direction = newDir,
                !.startAngle = IF diff > Pi THEN p.angle + 2 * Pi ELSE p.angle,
                !.endAngle = IF diff <= Pi /\ diff < 0 - Pi
                             THEN dirToAngle(newDir) + 2 * Pi ELSE dirToAngle(newDir)]

\* turnLeft (quarter = 3) and turnRight (quarter = 1)
TurnKey ==
  /\ dpc = "idle"
  /\ \E quarter \in {1, 3} :
       player' = IF Busy THEN player
                 ELSE startTurnAnimation(player, (player.direction + quarter) % 4)
  /\ UNCHANGED << gameVars, worldMap, mapWidth, mapHeight, loadVars, castVars, viewVars,
                  now, dpc, col, cols, frameAt, walls >>

NextMove == Spawn \/ MoveKey \/ TurnKey \/ Tick \/ UpdatePlayerAnimations

SpecMove == Init /\ [][NextMove]_vars

\* the screen columns followed, in the order of the for loop
DrawColumns == << 0, screenW \div 2 >>

InTable(m) == \E a \in Angles : (AngleOf[a] - m) % (2 * Pi) = 0
IndexOf(m) == CHOOSE a \in Angles : (AngleOf[a] - m) % (2 * Pi) = 0

\* the body of the for loop of draw3DView for column x, animX() and animY()
\* being ox and oy; the ray is cast where the table has the cosine of its angle
Column(x, ox, oy) ==
  LET rayAngle == player.angle - fov \div 2 + (x * fov) \div screenW
      known == InTable(rayAngle) /\ InTable(rayAngle - player.angle)
      ray == castRay(ox, oy, IndexOf(rayAngle))
      dist == FMul(ray.distance, Cos(IndexOf(rayAngle - player.angle)))
      lineH == FDiv(screenH * Scale, dist)
  IN  IF known
      THEN [x |-> x, ox |-> ox, oy |-> oy, rayAngle |-> rayAngle, ray |-> ray,
            dist |-> dist, lineH |-> lineH,
            lineTop |-> Half(FSub(screenH * Scale, lineH))]
      ELSE [x |-> x, ox |-> ox, oy |-> oy, rayAngle |-> rayAngle, ray |-> None,
            dist |-> None, lineH |-> None, lineTop |-> None]

\* renderFrame calls draw3DView
Draw3DView ==
  /\ dpc = "idle"
  /\ dpc' = "drawing"
  /\ col' = 0 /\ cols' = << >>
  /\ frameAt' = [x |-> animX, y |-> animY]
  /\ UNCHANGED << gameVars, worldMap, mapWidth, mapHeight, loadVars, castVars, viewVars,
                  player, now, walls >>

\* one iteration of the for loop of draw3DView
DrawColumn ==
  /\ dpc = "drawing"
  /\ col < Len(DrawColumns)
  /\ cols' = Append(cols, Column(DrawColumns[col + 1], animX, animY))
  /\ col' = col + 1
  /\ UNCHANGED << gameVars, worldMap, mapWidth, mapHeight, loadVars, castVars, viewVars,
                  player, now, dpc, frameAt, walls >>

\* the frame is on the screen: draw3DView or the WebGL renderer returns
DrawDone ==
  /\ (dpc = "drawing" /\ col = Len(DrawColumns)) \/ dpc = "rendered"
  /\ dpc' = "idle"
  /\ col' = 0 /\ cols' = << >> /\ frameAt' = None /\ walls' = None
  /\ UNCHANGED << gameVars, worldMap, mapWidth, mapHeight, loadVars, castVars, viewVars, player, now >>

\* 1.0 / (correctedDist === 0 ? 0.001 : correctedDist)
WallHeight(correctedDist) ==
  IF correctedDist = 0 THEN 1000 * Scale ELSE FDiv(Scale, correctedDist)

\* WebGLRenderer.render and renderRaycastedWalls, for the columns followed
RenderRaycastedWalls ==
  /\ dpc = "idle"
  /\ LET playerX == animX
         playerY == animY
     IN  walls' = [playerX |-> playerX, playerY |-> playerY,
                   columns |-> [i \in 1..Len(DrawColumns) |->
                     LET c == Column(DrawColumns[i], playerX, playerY)
                     IN  [x |-> c.x, ray |-> c.ray,
                          wallHeight |-> IF c.ray = None THEN None
                                         ELSE WallHeight(c.dist)]]]
  /\ dpc' = "rendered"
  /\ UNCHANGED << gameVars, worldMap, mapWidth, mapHeight, loadVars, castVars, viewVars,
                  player, now, col, cols, frameAt >>

NextDraw ==
  \/ Spawn \/ MoveKey \/ Tick \/ UpdatePlayerAnimations
  \/ Draw3DView \/ DrawColumn \/ DrawDone \/ RenderRaycastedWalls

SpecDraw == Init /\ [][NextDraw]_vars

\* ------------------------------- loading a level (the WebGL engine, beholder.js)
\* the built-in level of initDefaultWorldMap, one sequence of characters per row
asciiMap ==
  << << "X", "X", "X", "X", "X", "X" >>,
     << "X", "S", "O", "O", "E", "X" >>,
     << "X", "O", "X", "?", "O", "X" >>,
     << "X", "X", "X", "X", "X" >> >>

\* the cell code of a character of asciiMap
ParseChar(c) ==
  CASE c = "X" -> 1
    [] c = "E" -> 2
    [] c = "O" -> 0
    [] c = "S" -> 0
    [] OTHER -> 1

\* the rows the two for loops of initDefaultWorldMap build for a map of w by h cells
ParseRows(w, h) ==
  [y \in 1..h |->
     [x \in 1..w |-> ParseChar(IF x <= Len(asciiMap[y]) THEN asciiMap[y][x] ELSE "X")]]

DefaultMap == ParseRows(Len(asciiMap[1]), Len(asciiMap))

\* player.x = x + 0.5, player.y = y + 0.5 at the character S
StartOfAscii ==
  LET at == CHOOSE c \in (1..Len(asciiMap[1])) \X (1..Len(asciiMap)) :
              c[1] <= Len(asciiMap[c[2]]) /\ asciiMap[c[2]][c[1]] = "S"
  IN  [x |-> (at[1] - 1) * Scale + Scale \div 2, y |-> (at[2] - 1) * Scale + Scale \div 2]

\* what getLevel(levelId) of levels.js may return: a level with its level data,
\* a level without level data, or nothing at all
StartPositions ==
  {[x |-> Scale + Scale \div 2, y |-> Scale + Scale \div 2],
   [x |-> Undefined, y |-> Scale + Scale \div 2]}

LevelDatas ==
  {[name |-> "level", startPosition |-> p] : p \in StartPositions}
    \cup {[name |-> "level", startPosition |-> None], None}

LevelInfos ==
  {[worldMap |-> m, mapWidth |-> Len(m[1]), mapHeight |-> Len(m), levelData |-> d] :
     m \in Levels, d \in LevelDatas} \cup {None}

\* loadLevel is called between two frames: getLevel is missing or throws, or it returns
LoadLevel ==
  /\ lpc = "idle" /\ fpc = "idle"
  /\ \E known \in BOOLEAN, info \in LevelInfos :
       IF known
       THEN levelInfo' = info /\ lpc' = "called"
       ELSE levelInfo' = None /\ lpc' = "default"
  /\ UNCHANGED << gameVars, worldMap, mapWidth, mapHeight, castVars, viewVars, drawVars,
                  currentLevel, window, fpc, worldMapCopy, reads >>

\* worldMap = levelInfo.worldMap, a TypeError if getLevel returned undefined
StoreWorldMap ==
  /\ lpc = "called"
  /\ IF levelInfo = None
     THEN lpc' = "default" /\ UNCHANGED worldMap
     ELSE lpc' = "map" /\ worldMap' = levelInfo.worldMap
  /\ UNCHANGED << gameVars, mapWidth, mapHeight, castVars, viewVars, drawVars,
                  levelInfo, currentLevel, window, fpc, worldMapCopy, reads >>

\* mapWidth = levelInfo.mapWidth
StoreMapWidth ==
  /\ lpc = "map"
  /\ mapWidth' = levelInfo.mapWidth
  /\ lpc' = "width"
  /\ UNCHANGED << gameVars, worldMap, mapHeight, castVars, viewVars, drawVars,
                  levelInfo, currentLevel, window, fpc, worldMapCopy, reads >>

\* mapHeight = levelInfo.mapHeight; currentLevel = levelInfo.levelData
StoreMapHeight ==
  /\ lpc = "width"
  /\ mapHeight' = levelInfo.mapHeight
  /\ currentLevel' = levelInfo.levelData
  /\ lpc' = "height"
  /\ UNCHANGED << gameVars, worldMap, mapWidth, castVars, viewVars, drawVars,
                  levelInfo, window, fpc, worldMapCopy, reads >>

\* the start position is taken from the level data: reading currentLevel.startPosition
\* of an undefined currentLevel and player.x.toFixed of an undefined player.x throw
PlacePlayer ==
  /\ lpc = "height"
  /\ IF currentLevel = None
     THEN lpc' = "default" /\ UNCHANGED player
     ELSE IF currentLevel.startPosition = None
     THEN lpc' = "idle" /\ UNCHANGED player
     ELSE /\ player' = [player EXCEPT !.x = currentLevel.startPosition.x,
                                      !.y = currentLevel.startPosition.y]
          /\ lpc' = IF currentLevel.startPosition.x = Undefined THEN "default" ELSE "idle"
  /\ UNCHANGED << gameVars, worldMap, mapWidth, mapHeight, castVars, viewVars,
                  now, dpc, col, cols, frameAt, walls,
                  levelInfo, currentLevel, window, fpc, worldMapCopy, reads >>

\* initDefaultWorldMap: worldMap = []; mapHeight = asciiMap.length
ClearWorldMap ==
  /\ lpc = "default"
  /\ worldMap' = << >>
  /\ mapHeight' = Len(asciiMap)
  /\ lpc' = "cleared"
  /\ UNCHANGED << gameVars, mapWidth, castVars, viewVars, drawVars,
                  levelInfo, currentLevel, window, fpc, worldMapCopy, reads >>

\* initDefaultWorldMap: mapWidth = asciiMap[0].length
SetDefaultWidth ==
  /\ lpc = "cleared"
  /\ mapWidth' = Len(asciiMap[1])
  /\ lpc' = "sized"
  /\ UNCHANGED << gameVars, worldMap, mapHeight, castVars, viewVars, drawVars,
                  levelInfo, currentLevel, window, fpc, worldMapCopy, reads >>

\* initDefaultWorldMap: the rows are parsed, the player is put on S, the default
\* level data are set
ParseAsciiMap ==
  /\ lpc = "sized"
  /\ worldMap' = ParseRows(mapWidth, mapHeight)
  /\ player' = [player EXCEPT !.x = StartOfAscii.x, !.y = StartOfAscii.y]
  /\ currentLevel' = [name |-> "Default Level", startPosition |-> StartOfAscii]
  /\ lpc' = "idle"
  /\ UNCHANGED << gameVars, mapWidth, mapHeight, castVars, viewVars,
                  now, dpc, col, cols, frameAt, walls,
                  levelInfo, window, fpc, worldMapCopy, reads >>

\* what castRay of the engine reads: its own worldMap, mapWidth and mapHeight
RayReads == [worldMap |-> worldMap, mapWidth |-> mapWidth, mapHeight |-> mapHeight]

\* an updateGame that could begin while loadLevel is under way
UpdateGameAnyTime ==
  /\ fpc = "idle"
  /\ worldMapCopy' = window.worldMap
  /\ reads' = << >>
  /\ fpc' = "monsters"
  /\ UNCHANGED << gameVars, worldMap, mapWidth, mapHeight, castVars, viewVars, drawVars,
                  lpc, levelInfo, currentLevel, window >>

\* updateGame begins, no other script being under way: worldMapCopy = window.worldMap
UpdateGame ==
  /\ lpc = "idle" /\ fpc = "idle"
  /\ worldMapCopy' = window.worldMap
  /\ reads' = << >>
  /\ fpc' = "monsters"
  /\ UNCHANGED << gameVars, worldMap, mapWidth, mapHeight, castVars, viewVars, drawVars,
                  lpc, levelInfo, currentLevel, window >>

\* the monsters are updated: isInLineOfSight casts a ray, canMoveTo reads window.worldMap
MonsterUpdate ==
  /\ fpc = "monsters"
  /\ reads' = Append(reads, [by |-> "monster", tiles |-> window.worldMap, ray |-> RayReads])
  /\ fpc' = "projectiles"
  /\ UNCHANGED << gameVars, worldMap, mapWidth, mapHeight, castVars, viewVars, drawVars,
                  lpc, levelInfo, currentLevel, window, worldMapCopy >>

\* the projectiles are updated: each casts a ray and reads the tiles of the map passed
ProjectileUpdate ==
  /\ fpc = "projectiles"
  /\ reads' = Append(reads, [by |-> "projectile", tiles |-> worldMapCopy, ray |-> RayReads])
  /\ fpc' = "idle"
  /\ UNCHANGED << gameVars, worldMap, mapWidth, mapHeight, castVars, viewVars, drawVars,
                  lpc, levelInfo, currentLevel, window, worldMapCopy >>

\* the engine after ensureWorldMap and exportGlobals
InitLoad ==
  /\ worldMap = DefaultMap
  /\ mapWidth = Len(asciiMap[1])
  /\ mapHeight = Len(asciiMap)
  /\ pc = "idle" /\ px = 0 /\ py = 0 /\ angle = 1
  /\ mapX = 0 /\ mapY = 0 /\ sideDistX = 0 /\ sideDistY = 0
  /\ distance = 0 /\ hit = FALSE /\ hitVertical = FALSE /\ tileType = 1
  /\ textureX = 0 /\ iter = 0 /\ path = << >> /\ crossed = 0
  /\ badIndex = FALSE /\ casts = 0 /\ prev = None /\ trig = None
  /\ qpc = "idle"
  /\ viewer = Nobody /\ entity = Nothing
  /\ seen = None /\ seenBack = None /\ shown = None
  /\ player = [NoPlayer EXCEPT !.x = StartOfAscii.x, !.y = StartOfAscii.y]
  /\ now = 0 /\ dpc = "idle"
  /\ col = 0 /\ cols = << >> /\ frameAt = None /\ walls = None
  /\ lpc = "idle" /\ levelInfo = None
  /\ currentLevel = [name |-> "Default Level", startPosition |-> StartOfAscii]
  /\ window = [worldMap |-> worldMap, mapWidth |-> mapWidth, mapHeight |-> mapHeight]
  /\ fpc = "idle" /\ worldMapCopy = None /\ reads = << >>
  /\ monster = None /\ projectile = None /\ entities = << >> /\ typeLookup = << >>

NextLoad ==
  \/ LoadLevel \/ StoreWorldMap \/ StoreMapWidth \/ StoreMapHeight \/ PlacePlayer
  \/ ClearWorldMap \/ SetDefaultWidth \/ ParseAsciiMap
  \/ UpdateGame \/ MonsterUpdate \/ ProjectileUpdate

SpecLoad == InitLoad /\ [][NextLoad]_vars

\* ------------------------------------ the embedded level and a ring of walls
\* asciiMap of engine.js, one sequence of characters per row
embeddedAscii ==
  << << "X", "X", "X", "X", "X", "X", "X", "X", "X", "X", "X", "X", "X", "X", "X", "X", "X", "X", "X", "X", "X" >>,
     << "X", "X", "O", "O", "O", "O", "O", "O", "O", "O", "X", "O", "O", "O", "O", "O", "O", "O", "O", "X", "X" >>,
     << "X", "X", "O", "X", "X", "O", "X", "X", "X", "O", "X", "O", "X", "X", "X", "O", "X", "X", "O", "X", "X" >>,
     << "X", "X", "O", "X", "X", "O", "X", "X", "X", "O", "X", "O", "X", "X", "X", "O", "X", "X", "O", "X", "X" >>,
     << "X", "X", "O", "O", "O", "O", "O", "X", "O", "O", "O", "O", "X", "O", "O", "O", "O", "O", "O", "X", "X" >>,
     << "X", "X", "O", "X", "X", "O", "O", "X", "X", "X", "X", "X", "X", "O", "X", "X", "X", "X", "X", "X", "X" >>,
     << "X", "X", "O", "O", "O", "O", "O", "X", "O", "O", "O", "O", "O", "O", "X", "O", "O", "O", "O", "E", "X" >>,
     << "X", "X", "X", "X", "O", "O", "O", "X", "O", "O", "X", "X", "X", "X", "X", "O", "X", "X", "X", "X", "X" >>,
     << "X", "X", "O", "O", "O", "X", "X", "X", "O", "O", "O", "O", "O", "O", "O", "O", "O", "O", "O", "X", "X" >>,
     << "X", "X", "X", "X", "O", "O", "O", "X", "X", "X", "X", "X", "X", "X", "X", "X", "X", "X", "X", "X", "X" >>,
     << "X", "X", "O", "O", "O", "X", "O", "O", "O", "O", "X", "X", "O", "O", "O", "O", "O", "O", "O", "X", "X" >>,
     << "X", "X", "O", "X", "X", "O", "X", "X", "X", "X", "O", "O", "X", "X", "X", "O", "X", "X", "O", "X", "X" >>,
     << "X", "X", "O", "O", "O", "O", "X", "O", "O", "O", "S", "O", "O", "O", "O", "O", "O", "O", "O", "X", "X" >>,
     << "X", "X", "O", "X", "X", "O", "X", "X", "O", "X", "X", "X", "X", "X", "O", "X", "X", "O", "O", "X", "X" >>,
     << "X", "X", "O", "O", "O", "O", "O", "O", "O", "O", "O", "O", "O", "O", "O", "O", "O", "O", "O", "X", "X" >>,
     << "X", "X", "X", "X", "X", "X", "X", "X", "X", "X", "X", "X", "X", "X", "X", "X", "X", "X", "X", "X", "X" >> >>

\* ParseAscii reading each row from its far end
ParseAsciiMirrored(rows) ==
  [y \in 1..Len(rows) |->
     [x \in 1..Len(rows[1]) |->
        ParseChar(IF Len(rows[1]) + 1 - x <= Len(rows[y])
                  THEN rows[y][Len(rows[1]) + 1 - x] ELSE "X")]]

\* parseAsciiMap: the cell codes of the rows, each as long as the first one
ParseAscii(rows) ==
  [y \in 1..Len(rows) |->
     [x \in 1..Len(rows[1]) |->
        ParseChar(IF x <= Len(rows[y]) THEN rows[y][x] ELSE "X")]]

EmbeddedMap == ParseAscii(embeddedAscii)

\* a level of 10 by 10 cells: a ring of walls one cell thick around floor
RingMap ==
  [y \in 1..10 |-> [x \in 1..10 |-> IF x = 1 \/ x = 10 \/ y = 1 \/ y = 10 THEN WALL ELSE FLOOR]]

GoldenLevels == {RingMap, EmbeddedMap}

\* the engine with one of the two levels parsed
InitGolden ==
  /\ worldMap \in GoldenLevels
  /\ mapWidth = Len(worldMap[1])
  /\ mapHeight = Len(worldMap)
  /\ pc = "idle" /\ px = 0 /\ py = 0 /\ angle = 1
  /\ mapX = 0 /\ mapY = 0 /\ sideDistX = 0 /\ sideDistY = 0
  /\ distance = 0 /\ hit = FALSE /\ hitVertical = FALSE /\ tileType = 1
  /\ textureX = 0 /\ iter = 0 /\ path = << >> /\ crossed = 0
  /\ badIndex = FALSE /\ casts = 0 /\ prev = None /\ trig = None
  /\ qpc = "idle"
  /\ viewer = Nobody /\ entity = Nothing
  /\ seen = None /\ seenBack = None /\ shown = None
  /\ player = NoPlayer /\ now = 0 /\ dpc = "unset"
  /\ col = 0 /\ cols = << >> /\ frameAt = None /\ walls = None
  /\ lpc = "idle" /\ levelInfo = None /\ currentLevel = None
  /\ window = [worldMap |-> worldMap, mapWidth |-> mapWidth, mapHeight |-> mapHeight]
  /\ fpc = "idle" /\ worldMapCopy = None /\ reads = << >>
  /\ monster = None /\ projectile = None /\ entities = << >> /\ typeLookup = << >>

\* a call castRay(x, y, a) from the centre of a floor cell, where the player stands
CastFromCentre ==
  /\ pc = "idle"
  /\ \E cx \in 0..(mapWidth - 1), cy \in 0..(mapHeight - 1), a \in Angles :
       /\ ReadMap(cx, cy) = FLOOR
       /\ BeginCast(cx * Scale + Scale \div 2, cy * Scale + Scale \div 2, a)
  /\ casts' = 1 /\ prev' = None /\ trig' = None
  /\ UNCHANGED << gameVars, worldMap, mapWidth, mapHeight, loadVars, badIndex, viewVars, drawVars >>

NextGolden == CastFromCentre \/ DDAStep \/ FinishCast \/ CastAgain \/ DropResult

SpecGolden == InitGolden /\ [][NextGolden]_vars

\* ------------------------------------------------------- Monster (monsters.js)
Null == 0 - 999999                   \* null

\* MONSTER_TYPES.skeleton
skeleton == [health |-> 20, damage |-> 5, speed |-> Scale \div 2,
             sightRange |-> 5 * Scale, frames |-> 2]

animationSpeed == 250
attackAnimationSpeed == 200
attackCooldown == 1000
AdjacentRange == (3 * Scale) \div 2  \* 1.5
padding == (3 * Scale) \div 10       \* 0.3

FrameMs == 500      \* the dt of an update and the step of performance.now() in the game
MaxFrames == 3      \* performance.now() is followed for MaxFrames * FrameMs

\* new Monster("skeleton", x, y): this.state is not set by the constructor
NewMonster(x, y) ==
  [x |-> x, y |-> y, active |-> TRUE, health |-> skeleton.health, state |-> "undefined",
   isAttacking |-> FALSE, animationFrame |-> 0, lastAnimationUpdate |-> 0,
   attackAnimationFrame |-> 0, lastAttackAnimationUpdate |-> 0,
   targetX |-> Null, targetY |-> Null, lastSawPlayerTime |-> 0, lastAttackTime |-> 0,
   waitTime |-> 0, frozen |-> FALSE, frozenUntil |-> 0]

\* the two animation counters at the head of Monster.update
Animated(m) ==
  LET m1 == IF ~m.isAttacking /\ skeleton.frames > 1
               /\ now - m.lastAnimationUpdate > animationSpeed
            THEN [m EXCEPT !.animationFrame = (m.animationFrame + 1) % skeleton.frames,
                           !.lastAnimationUpdate = now]
            ELSE m
  IN  IF m1.isAttacking /\ now - m1.lastAttackAnimationUpdate > attackAnimationSpeed
      THEN [m1 EXCEPT !.attackAnimationFrame = (m1.attackAnimationFrame + 1) % 2,
                      !.lastAttackAnimationUpdate = now]
      ELSE m1

\* Math.cos(Math.atan2(dy, dx)) for d = dx and Math.sin(Math.atan2(dy, dx)) for d = dy,
\* of a vector that is not zero
UnitOf(d, dx, dy) == Sign(d) * ((FAbs(d) * Scale) \div Hypot(dx, dy))

\* this.isInLineOfSight(player, worldMap, castRay) of a monster
MonsterSees(m, pl) ==
  LET dx == pl.x - m.x
      dy == pl.y - m.y
      c == IF dx = 0 /\ dy = 0 THEN Scale ELSE UnitOf(dx, dx, dy)
      s == IF dx = 0 /\ dy = 0 THEN 0 ELSE UnitOf(dy, dx, dy)
  IN  FGe(castRayAlong(m.x, m.y, c, s).distance, distanceTo(m, pl))

\* Monster.canMoveTo(x, y): the cell and its four neighbours within the padding
MonsterCanMoveTo(x, y) ==
  LET map == window.worldMap
      tileX == CellOf(x)
      tileY == CellOf(y)
      leftTile == CellOf(x - padding)
      rightTile == CellOf(x + padding)
      topTile == CellOf(y - padding)
      bottomTile == CellOf(y + padding)
  IN  /\ map # None
      /\ ~(tileX < 0 \/ tileY < 0 \/ tileX >= Len(map[1]) \/ tileY >= Len(map))
      /\ map[tileY + 1][tileX + 1] = 0
      /\ (IF leftTile >= 0 THEN map[tileY + 1][leftTile + 1] ELSE 1) = 0
      /\ (IF rightTile < Len(map[1]) THEN map[tileY + 1][rightTile + 1] ELSE 1) = 0
      /\ (IF topTile >= 0 THEN map[topTile + 1][tileX + 1] ELSE 1) = 0
      /\ (IF bottomTile < Len(map) THEN map[bottomTile + 1][tileX + 1] ELSE 1) = 0

\* moveTowardAdjacent from the normalised direction on
StepToward(m, targetX, targetY, dt) ==
  LET dx == targetX - m.x
      dy == targetY - m.y
      dist == Hypot(dx, dy)
      moveAmount == (skeleton.speed * dt) \div 1000
      newX == m.x + Sign(dx) * ((FAbs(dx) * moveAmount) \div dist)
      newY == m.y + Sign(dy) * ((FAbs(dy) * moveAmount) \div dist)
      x1 == IF MonsterCanMoveTo(newX, m.y) THEN newX ELSE m.x
      y1 == IF MonsterCanMoveTo(x1, newY) THEN newY ELSE m.y
  IN  [m EXCEPT !.x = x1, !.y = y1]

moveTowardAdjacent(m, targetX, targetY, dt) ==
  IF Hypot(targetX - m.x, targetY - m.y) <= AdjacentRange THEN m
  ELSE StepToward(m, targetX, targetY, dt)

\* the test of the health check, on negative health only
IsDeadBelowZero(m) == m.health < 0

\* if (this.properties.health <= 0)
IsDead(m) == m.health <= 0

\* the part of Monster.update that looks for the player
Sensed(m, pl) ==
  LET dist == distanceTo(m, pl)
      canSeePlayer == MonsterSees(m, pl) /\ FLt(dist, skeleton.sightRange)
  IN  IF ~canSeePlayer THEN [m EXCEPT !.isAttacking = FALSE]
      ELSE IF dist <= AdjacentRange
      THEN [m EXCEPT !.lastSawPlayerTime = now, !.state = "attack",
                     !.targetX = Null, !.targetY = Null, !.isAttacking = TRUE,
                     !.lastAttackTime = IF now - m.lastAttackTime > attackCooldown
                                        THEN now ELSE m.lastAttackTime]
      ELSE [m EXCEPT !.lastSawPlayerTime = now, !.state = "chase",
                     !.targetX = pl.x, !.targetY = pl.y, !.isAttacking = FALSE]

\* the switch of Monster.update, for a monster without patrol points
Acted(m, dt) ==
  CASE m.state = "idle" ->
         IF m.waitTime - dt <= 0 THEN [m EXCEPT !.waitTime = 2000]
         ELSE [m EXCEPT !.waitTime = m.waitTime - dt]
    [] m.state = "patrol" -> [m EXCEPT !.state = "idle"]
    [] m.state = "chase" ->
         IF m.targetX # Null /\ m.targetY # Null
         THEN moveTowardAdjacent(m, m.targetX, m.targetY, dt) ELSE m
    [] OTHER -> m

\* Monster.update(dt, player, worldMap, castRay); pl is None for update(dt)
Monster_update(m, dt, pl) ==
  LET a == Animated(m)
  IN  IF IsDead(a) THEN [a EXCEPT !.active = FALSE]
      ELSE IF pl = None THEN [a EXCEPT !.isAttacking = FALSE]
      ELSE Acted(Sensed(a, pl), dt)

\* Monster.takeDamage(amount)
takeDamage(m, amount) ==
  [m EXCEPT !.health = m.health - amount,
            !.active = IF m.health - amount <= 0 THEN FALSE ELSE m.active]

\* entityManager.update(dt) and the loop of updateGame over the monsters
UpdateMonster ==
  /\ monster # None
  /\ \E withPlayer \in BOOLEAN :
       monster' = Monster_update(monster, FrameMs, IF withPlayer THEN player ELSE None)
  /\ UNCHANGED << worldMap, mapWidth, mapHeight, castVars, viewVars, drawVars, loadVars,
                  projectile, entities, typeLookup >>

\* a fireball of the player hits the monster: the loop over the entities skips the inactive
HitMonster ==
  /\ monster # None /\ monster.active
  /\ monster' = takeDamage(monster, 10)
  /\ UNCHANGED << worldMap, mapWidth, mapHeight, castVars, viewVars, drawVars, loadVars,
                  projectile, entities, typeLookup >>

\* performance.now() from one frame to the next
GameTick ==
  /\ dpc = "idle"
  /\ now < MaxFrames * FrameMs
  /\ now' = now + FrameMs
  /\ UNCHANGED << gameVars, worldMap, mapWidth, mapHeight, loadVars, castVars, viewVars,
                  player, dpc, col, cols, frameAt, walls >>

\* where the level puts the player and where spawnTestEntities puts the monster
HeroStarts == {<<0, 2>>, <<2, 0>>, <<3, 1>>}
MonsterStarts == {<<0, 1>>}

\* the game after init(): the level is loaded with the player in one of the cells starts,
\* the monster is spawned
InitGame(starts) ==
  /\ worldMap = OpenMap
  /\ mapWidth = Len(worldMap[1]) /\ mapHeight = Len(worldMap)
  /\ pc = "idle"
  /\ px = 0 /\ py = 0 /\ angle = 1
  /\ mapX = 0 /\ mapY = 0 /\ sideDistX = 0 /\ sideDistY = 0
  /\ distance = 0 /\ hit = FALSE /\ hitVertical = FALSE /\ tileType = 1
  /\ textureX = 0 /\ iter = 0 /\ path = << >> /\ crossed = 0
  /\ badIndex = FALSE /\ casts = 0 /\ prev = None /\ trig = None
  /\ qpc = "idle"
  /\ viewer = Nobody /\ entity = Nothing
  /\ seen = None /\ seenBack = None /\ shown = None
  /\ \E c \in starts :
       player = [NoPlayer EXCEPT !.x = c[1] * Scale + Scale \div 2,
                                 !.y = c[2] * Scale + Scale \div 2]
  /\ now = 0 /\ dpc = "idle"
  /\ col = 0 /\ cols = << >> /\ frameAt = None /\ walls = None
  /\ lpc = "idle" /\ levelInfo = None /\ currentLevel = None
  /\ window = [worldMap |-> worldMap, mapWidth |-> mapWidth, mapHeight |-> mapHeight]
  /\ fpc = "idle" /\ worldMapCopy = None /\ reads = << >>
  /\ \E c \in MonsterStarts :
       monster = NewMonster(c[1] * Scale + Scale \div 2, c[2] * Scale + Scale \div 2)
  /\ projectile = None /\ entities = << >> /\ typeLookup = << >>

InitMonster == InitGame(HeroStarts)

NextMonster == MoveKey \/ GameTick \/ UpdatePlayerAnimations \/ UpdateMonster \/ HitMonster

SpecMonster == InitMonster /\ [][NextMonster]_vars

\* ------------------------------------------------------------ projectiles

\* PROJECTILE_TYPES: hit points of damage, cells per second, cells of range, collisionEffect
PROJECTILE_TYPES ==
  [fireball |-> [damage |-> 10, speed |-> 5 * Scale, range |-> 15 * Scale,
                 collisionEffect |-> "explosion"],
   arrow    |-> [damage |-> 5, speed |-> 8 * Scale, range |-> 20 * Scale,
                 collisionEffect |-> "stick"],
   iceSpell |-> [damage |-> 8, speed |-> 4 * Scale, range |-> 12 * Scale,
                 collisionEffect |-> "freeze"]]

\* the 0.5 in front of the source at which shootProjectile spawns, and the collision radius
spawnDistance == Scale \div 2
collisionRadius == Scale \div 2
\* the radius of an explosion
splashRadius == (3 * Scale) \div 2
\* the 0.01 by which a collision point stays before the wall
wallGap == Scale \div 100
\* the 100 ms between two animation frames and the 3000 ms of a freeze
frameInterval == 100
freezeTime == 3000

\* the frame times with which update is called
FrameTimes == {FrameMs \div 5, FrameMs}

\* the directions a player faces, along which a shot leaves
ShotAngles == {a \in Angles : Directions[a][3] = 1}

\* the cells from which the player shoots
ShooterStarts == {<<0, 2>>, <<1, 0>>}

\* new Projectile(type, x, y, angle, properties): castRay tells whether properties.castRay is
\* given, expected is properties.expectedHitDistance, damage overrides the damage of the type
NewProjectile(type, x, y, a, useRay, expected, damage) ==
  LET stats == PROJECTILE_TYPES[type]
      reach == IF useRay THEN castRay(x, y, a).distance ELSE stats.range
  IN  [x |-> x, y |-> y, active |-> TRUE, visible |-> TRUE,
       collided |-> FALSE, collisionTime |-> Null,
       projectileType |-> type, angle |-> a, distance |-> 0,
       damage |-> damage, speed |-> stats.speed, range |-> stats.range,
       collisionEffect |-> stats.collisionEffect,
       castRay |-> useRay, expectedHitDistance |-> expected,
       collisionPoint |-> [x |-> FAdd(x, FMul(reach, Cos(a))),
                           y |-> FAdd(y, FMul(reach, Sin(a)))],
       animationFrame |-> 0, lastAnimationUpdate |-> now]

\* the splash damage of an explosion at p on the monster m, which is not the entity hit
Splashed(p, m) ==
  LET d    == Hypot(m.x - p.x, m.y - p.y)
      mult == FSub(Scale, FDiv(distanceTo(p, m), splashRadius))
  IN  IF d <= splashRadius /\ FGt(mult, 0)
      THEN takeDamage(m, (p.damage * mult) \div (2 * Scale))
      ELSE m

\* the guard at the head of handleCollision
AlreadyCollidedNever(p) == FALSE
AlreadyCollided(p) == p.collided

\* Projectile.handleCollision(type, hitEntity): the projectile and the monster after it;
\* hitEntity tells whether the monster is the entity hit
handleCollision(p, m, type, hitEntity) ==
  IF AlreadyCollided(p) THEN [p |-> p, m |-> m]
  ELSE LET q   == [p EXCEPT !.collided = TRUE, !.active = FALSE, !.collisionTime = now]
           struck == IF type = "entity" /\ hitEntity THEN takeDamage(m, p.damage) ELSE m
       IN  CASE p.collisionEffect = "explosion" ->
                  [p |-> q, m |-> IF hitEntity THEN struck ELSE Splashed(q, m)]
             [] p.collisionEffect = "stick" ->
                  [p |-> [q EXCEPT !.visible = TRUE, !.active = FALSE], m |-> struck]
             [] p.collisionEffect = "freeze" ->
                  [p |-> q,
                   m |-> IF hitEntity
                         THEN [struck EXCEPT !.frozen = TRUE, !.frozenUntil = now + freezeTime]
                         ELSE struck]

\* the test of update against the range
OutOfRangeNever(p) == FALSE
OutOfRange(p) == p.distance >= p.range

\* the tile the projectile p is over, as update reads it from the map it is given
TileUnder(p) ==
  IF OutOfBounds(CellOf(p.x), CellOf(p.y)) THEN Undefined
  ELSE worldMap[CellOf(p.y) + 1][CellOf(p.x) + 1]

\* update from the test of the expected hit distance on: p has moved from (oldX, oldY) by
\* travelled; full tells whether the entities and the map are given
Flight(p, m, oldX, oldY, travelled, full) ==
  IF p.expectedHitDistance # Undefined /\ p.expectedHitDistance # 0
     /\ FGe(p.distance, p.expectedHitDistance)
  THEN handleCollision([p EXCEPT !.x = p.collisionPoint.x, !.y = p.collisionPoint.y],
                       m, "wall", FALSE)
  ELSE IF OutOfRange(p) THEN [p |-> [p EXCEPT !.active = FALSE], m |-> m]
  ELSE IF full /\ p.castRay /\ FGe(travelled, castRay(oldX, oldY, p.angle).distance)
  THEN handleCollision(
         [p EXCEPT !.x = FAdd(oldX, FMul(Cos(p.angle),
                                FSub(castRay(oldX, oldY, p.angle).distance, wallGap))),
                   !.y = FAdd(oldY, FMul(Sin(p.angle),
                                FSub(castRay(oldX, oldY, p.angle).distance, wallGap)))],
         m, "wall", FALSE)
  ELSE IF full /\ TileUnder(p) = Undefined THEN [p |-> [p EXCEPT !.active = FALSE], m |-> m]
  ELSE IF full /\ TileUnder(p) # 0 THEN handleCollision(p, m, "wall", FALSE)
  ELSE IF full /\ m.active /\ FLt(distanceTo(p, m), collisionRadius)
  THEN handleCollision(p, m, "entity", TRUE)
  ELSE [p |-> p, m |-> m]

\* Projectile.update(dt, entities, worldMap) up to the test of the expected hit distance:
\* the animation frame, the new position and the distance travelled
Advanced(p, dt) ==
  LET due == now - p.lastAnimationUpdate > frameInterval
  IN  [p EXCEPT !.animationFrame = IF due THEN (@ + 1) % 3 ELSE @,
                !.lastAnimationUpdate = IF due THEN now ELSE @,
                !.x = FAdd(@, FMul(Cos(p.angle), (p.speed * dt) \div 1000)),
                !.y = FAdd(@, FMul(Sin(p.angle), (p.speed * dt) \div 1000))]

\* createProjectile(type, x, y, angle, properties) in front of the player
CreateProjectile ==
  /\ projectile = None
  /\ \E type \in DOMAIN PROJECTILE_TYPES, a \in ShotAngles, useRay \in BOOLEAN :
       projectile' = NewProjectile(type, FAdd(player.x, FMul(Cos(a), spawnDistance)),
                                   FAdd(player.y, FMul(Sin(a), spawnDistance)),
                                   a, useRay, Undefined, PROJECTILE_TYPES[type].damage)
  /\ UNCHANGED << worldMap, mapWidth, mapHeight, castVars, viewVars, drawVars, loadVars,
                  monster, entities, typeLookup >>

\* shootProjectile(entityManager, type, player, angle, properties)
ShootProjectile ==
  /\ projectile = None
  /\ \E type \in DOMAIN PROJECTILE_TYPES, a \in ShotAngles, useRay \in BOOLEAN :
       \E spawnX \in {FAdd(player.x, FMul(Cos(a), spawnDistance))},
          spawnY \in {FAdd(player.y, FMul(Sin(a), spawnDistance))} :
         \E reach \in {IF useRay THEN castRay(spawnX, spawnY, a).distance ELSE Inf} :
           projectile' = NewProjectile(type, spawnX, spawnY, a, useRay,
                                       IF FLt(reach, PROJECTILE_TYPES[type].range)
                                       THEN reach ELSE PROJECTILE_TYPES[type].range,
                                       PROJECTILE_TYPES[type].damage)
  /\ UNCHANGED << worldMap, mapWidth, mapHeight, castVars, viewVars, drawVars, loadVars,
                  monster, entities, typeLookup >>

\* one call of projectile.update: entityManager.update(dt) gives neither the entities nor
\* the map, the loop of updateGame over the projectiles gives both
UpdateProjectile ==
  /\ projectile # None
  /\ \E dt \in FrameTimes, full \in BOOLEAN :
       IF ~projectile.active \/ projectile.collided
       THEN UNCHANGED << projectile, monster >>
       ELSE \E moved \in {Advanced(projectile, dt)} :
              \E travelled \in {Hypot(moved.x - projectile.x, moved.y - projectile.y)} :
                \E p \in {[moved EXCEPT !.distance = @ + travelled]} :
                  \E r \in {Flight(p, monster, projectile.x, projectile.y, travelled, full)} :
                    /\ projectile' = r.p
                    /\ monster' = r.m
  /\ UNCHANGED << worldMap, mapWidth, mapHeight, castVars, viewVars, drawVars, loadVars,
                  entities, typeLookup >>

\* a further call of handleCollision on a projectile that has collided
CollideAgain ==
  /\ projectile # None /\ projectile.collided
  /\ \E type \in {"wall", "entity"} :
       \E r \in {handleCollision(projectile, monster, type, type = "entity")} :
         /\ projectile' = r.p
         /\ monster' = r.m
  /\ UNCHANGED << worldMap, mapWidth, mapHeight, castVars, viewVars, drawVars, loadVars,
                  entities, typeLookup >>

NextProjectile ==
  CreateProjectile \/ ShootProjectile \/ UpdateProjectile \/ CollideAgain \/ GameTick

\* the game with a projectile in flight
InitProjectile == InitGame(ShooterStarts)

SpecProjectile == InitProjectile /\ [][NextProjectile]_vars

\* the game loop calls update in every frame
SpecProjectileLive == SpecProjectile /\ WF_vars(UpdateProjectile)

\* --------------------------------------------------------- entity manager

\* the ids generateUniqueId draws and the types of the entities of the game
Ids == {"_a", "_b"}
EntityTypes == {"monster", "projectile"}

\* the entities a caller can hold: two entities with one id differ in their place
EntityPool == [id : Ids, type : EntityTypes, x : {Scale \div 2, (3 * Scale) \div 2}]

\* the longest id list of a type that add fills
MaxIds == 3

\* typeArray.indexOf(entityId), counted from 1, and -1 when it is absent
indexOf(typeArray, entityId) ==
  IF \E k \in 1..Len(typeArray) : typeArray[k] = entityId
  THEN CHOOSE k \in 1..Len(typeArray) :
         typeArray[k] = entityId /\ \A j \in 1..(k - 1) : typeArray[j] # entityId
  ELSE 0 - 1

\* typeArray.splice(index, 1)
splice(typeArray, index) ==
  SubSeq(typeArray, 1, index - 1) \o SubSeq(typeArray, index + 1, Len(typeArray))

\* EntityManager.getByType(type): the ids of the type mapped through the entities, an id
\* that is not stored gives undefined
getByType(type) ==
  LET ids == IF type \in DOMAIN typeLookup THEN typeLookup[type] ELSE << >>
  IN  [k \in 1..Len(ids) |-> IF ids[k] \in DOMAIN entities THEN entities[ids[k]] ELSE None]

\* EntityManager.add(entity)
AddEntity ==
  /\ \E e \in EntityPool :
       LET ids == IF e.type \in DOMAIN typeLookup THEN typeLookup[e.type] ELSE << >>
       IN  /\ Len(ids) < MaxIds
           /\ entities' = [i \in DOMAIN entities \cup {e.id} |->
                             IF i = e.id THEN e ELSE entities[i]]
           /\ typeLookup' = [t \in DOMAIN typeLookup \cup {e.type} |->
                               IF t = e.type THEN Append(ids, e.id) ELSE typeLookup[t]]
  /\ UNCHANGED << worldMap, mapWidth, mapHeight, castVars, viewVars, drawVars, loadVars,
                  monster, projectile >>

\* EntityManager.remove(entityId)
RemoveEntity ==
  /\ \E entityId \in Ids :
       IF entityId \in DOMAIN entities
       THEN LET type  == entities[entityId].type
                index == IF type \in DOMAIN typeLookup
                         THEN indexOf(typeLookup[type], entityId) ELSE 0 - 1
            IN  /\ typeLookup' = IF index # 0 - 1
                                 THEN [typeLookup EXCEPT ![type] = splice(@, index)]
                                 ELSE typeLookup
                /\ entities' = [i \in DOMAIN entities \ {entityId} |-> entities[i]]
       ELSE UNCHANGED << entities, typeLookup >>
  /\ UNCHANGED << worldMap, mapWidth, mapHeight, castVars, viewVars, drawVars, loadVars,
                  monster, projectile >>

NextManager == AddEntity \/ RemoveEntity

\* the entity manager from new EntityManager() on
SpecManager == Init /\ [][NextManager]_vars

\* ------------------------------------------------------------ properties
CellCode(c) == ReadMap(c[1], c[2])

\* every cell on the edge of the grid is a non-floor cell
Enclosed ==
  \A x \in 0..(mapWidth - 1), y \in 0..(mapHeight - 1) :
    (x = 0 \/ y = 0 \/ x = mapWidth - 1 \/ y = mapHeight - 1) => ReadMap(x, y) # FLOOR

\* the origin of the ray lies in a floor cell that is not on the edge of the grid
StrictlyInside ==
  /\ CellOf(px) >= 1 /\ CellOf(px) <= mapWidth - 2
  /\ CellOf(py) >= 1 /\ CellOf(py) <= mapHeight - 2
  /\ ReadMap(CellOf(px), CellOf(py)) = FLOOR

AxisAligned == Cos(angle) = 0 \/ Sin(angle) = 0

\* C1: from every origin strictly inside a fully-enclosed map and for every
\* angle, castRay ends within the iteration cap and returns a finite distance.
C1_EnclosedCastWithinCap ==
  (pc \in {"loop", "done"} /\ Enclosed /\ StrictlyInside) =>
    /\ iter <= IterationCap
    /\ (pc = "done" => IsFin(distance))

\* C2: for any input the DDA loop runs at most IterationCap iterations; a ray
\* that has used them up is a no-hit at the maximum distance.
C2_LoopWithinCap ==
  /\ iter <= IterationCap
  /\ (pc = "loop" /\ iter = IterationCap => hit /\ distance = MaxViewDistance * Scale)

\* C3: every cell the ray steps into before the returned hit cell is FLOOR.
C3_StopsAtFirstNonFloor ==
  \A i \in 1..Len(path) :
    (i < Len(path) \/ ~hit) => CellCode(path[i]) = FLOOR

\* C4: on a hit inside the grid the returned distance is the sideDist of the
\* axis just advanced as it was before the increment, and the point at that
\* distance along the ray lies on the boundary crossed into the hit cell.
C4_DistanceIsBoundaryCrossed ==
  (pc = "done" /\ InGrid(mapX, mapY)) =>
    /\ distance = crossed
    /\ IF hitVertical
       THEN FAdd(px, FMul(distance, Cos(angle)))
              = (IF stepX > 0 THEN mapX ELSE mapX + 1) * Scale
       ELSE FAdd(py, FMul(distance, Sin(angle)))
              = (IF stepY > 0 THEN mapY ELSE mapY + 1) * Scale

C4_Witness ==
  pc = "done" /\ InGrid(mapX, mapY) /\ iter >= 2 /\ ~AxisAligned /\ hitVertical

\* C5: a step to a cell outside the grid ends the cast with the maximum view
\* distance, and worldMap is never read outside the grid.
C5_OutOfBoundsIsMaxDistance ==
  /\ ~badIndex
  /\ (pc \in {"loop", "done"} /\ iter > 0 /\ ~InGrid(mapX, mapY)) =>
       (hit /\ distance = MaxViewDistance * Scale)

C5_Witness ==
  pc = "done" /\ iter >= 2 /\ mapY >= mapHeight /\ distance = MaxViewDistance * Scale

\* C6: a cell whose code is none of FLOOR, WALL, EXIT stops the ray as a wall does.
C6_OtherCodesStopTheRay ==
  \A i \in 1..Len(path) :
    (InGrid(path[i][1], path[i][2]) /\ CellCode(path[i]) \notin {FLOOR, WALL, EXIT})
      => (i = Len(path) /\ hit)

\* C7: an axis-aligned ray (cos = 0 or sin = 0), also from an origin on a grid
\* line, never yields NaN, makes at most mapWidth + mapHeight iterations, can
\* always take its next step, and returns a finite distance.
C7_AxisAlignedDefined ==
  (pc \in {"loop", "done"} /\ AxisAligned) =>
    /\ ~IsNaN(sideDistX) /\ ~IsNaN(sideDistY)
    /\ deltaDistX = Inf \/ deltaDistY = Inf
    /\ iter <= mapWidth + mapHeight
    /\ (pc = "loop" => ENABLED (DDAStep \/ FinishCast))
    /\ (pc = "done" => IsFin(distance) /\ IsFin(textureX))

C7_Witness ==
  /\ pc = "done" /\ Cos(angle) = 0 /\ px % Scale = 0 /\ py % Scale = 0
  /\ InGrid(mapX, mapY) /\ iter >= 2

\* C8: the castRay built from castHorizontalRay and castVerticalRay returns the
\* same distance and the same cell code as the DDA castRay.
C8_RayMarchEqualsDDA ==
  (pc = "done" /\ trig # None) =>
    /\ ~trig.threw
    /\ trig.distance = distance
    /\ trig.wallType = tileType

\* the vertical and the horizontal crossing are equally far at the first step
FirstStepTie ==
  InitSideDist(px, Cos(angle), deltaDistX) = InitSideDist(py, Sin(angle), deltaDistY)

C10_TextureFractionInRange ==
  pc = "done" => (FGe(textureX, 0) /\ FLt(textureX, Scale))

\* ------------------------------------------- the segment between two points
\* a rational is <<n, d>> with d > 0
RatLt(p, q) == p[1] * q[2] < q[1] * p[2]
RatLe(p, q) == p[1] * q[2] <= q[1] * p[2]
RatMax(p, q) == IF RatLt(p, q) THEN q ELSE p
RatMin(p, q) == IF RatLt(p, q) THEN p ELSE q

\* the interval of t with lo < a + t * d < hi, as << from, to >>; the closed
\* form admits a + t * d = lo and a + t * d = hi
Slab(a, d, lo, hi, closed) ==
  IF d = 0
  THEN IF (lo < a /\ a < hi) \/ (closed /\ (a = lo \/ a = hi))
       THEN << << 0 - 1, 1 >>, << 2, 1 >> >>
       ELSE << << 1, 1 >>, << 0, 1 >> >>
  ELSE IF d > 0 THEN << << lo - a, d >>, << hi - a, d >> >>
  ELSE << << a - hi, 0 - d >>, << a - lo, 0 - d >> >>

\* the part of the segment from p to q inside the cell (cx, cy), as an interval of t in [0, 1]
Clip(p, q, cx, cy, closed) ==
  LET sx == Slab(p.x, q.x - p.x, cx * Scale, (cx + 1) * Scale, closed)
      sy == Slab(p.y, q.y - p.y, cy * Scale, (cy + 1) * Scale, closed)
  IN  << RatMax(RatMax(sx[1], sy[1]), << 0, 1 >>),
         RatMin(RatMin(sx[2], sy[2]), << 1, 1 >>) >>

\* the segment runs through the inside of the cell
Through(p, q, cx, cy) ==
  LET c == Clip(p, q, cx, cy, FALSE) IN RatLt(c[1], c[2])

\* the segment has a point in common with the cell, its edges and corners included
Touches(p, q, cx, cy) ==
  LET c == Clip(p, q, cx, cy, TRUE) IN RatLe(c[1], c[2])

Lower(a, b) == IF a < b THEN a ELSE b
Upper(a, b) == IF a < b THEN b ELSE a
CellsNear(p, q) ==
  { << cx, cy >> : cx \in (CellOf(Lower(p.x, q.x)) - 1)..CellOf(Upper(p.x, q.x)),
                   cy \in (CellOf(Lower(p.y, q.y)) - 1)..CellOf(Upper(p.y, q.y)) }

\* a non-floor cell of the grid lies on the segment before its end
Blocked(p, q) ==
  \E c \in CellsNear(p, q) :
    InGrid(c[1], c[2]) /\ ReadMap(c[1], c[2]) # FLOOR /\ Through(p, q, c[1], c[2])

\* every cell the segment has a point in common with is a floor cell of the grid
Clear(p, q) ==
  \A c \in CellsNear(p, q) :
    Touches(p, q, c[1], c[2]) => (InGrid(c[1], c[2]) /\ ReadMap(c[1], c[2]) = FLOOR)

OnFloor(p) == InGrid(CellOf(p.x), CellOf(p.y)) /\ ReadMap(CellOf(p.x), CellOf(p.y)) = FLOOR
SamePoint(p, q) == p.x = q.x /\ p.y = q.y

\* C12: isInLineOfSight returns false whenever a non-floor cell lies on the
\* straight segment from the asking entity (standing on floor) to the other,
\* before the segment's end.
C12_BlockedIsNotVisible ==
  (seen # None /\ OnFloor(viewer) /\ Blocked(viewer, entity)) => ~seen.value

\* C19: when every cell on the segment between A and B is floor, A sees B and B sees A.
C19_ClearIsMutual ==
  (seenBack # None /\ Clear(viewer, entity)) => (seen.value /\ seenBack.value)

C19_Witness ==
  /\ seenBack # None /\ Clear(viewer, entity)
  /\ CellOf(viewer.x) # CellOf(entity.x) /\ CellOf(viewer.y) # CellOf(entity.y)
  /\ seen.value /\ seenBack.value

\* C20: an entity standing on a floor cell is in its own line of sight.
C20_SeesItself ==
  (seen # None /\ SamePoint(viewer, entity) /\ OnFloor(viewer)) => seen.value

\* -------------------------------------------------- the entity on the screen
\* the angle between the way the viewer faces and the direction to the entity
Separation ==
  LET m == (AngleOf[Atan2(entity.y - viewer.y, entity.x - viewer.x)] - viewer.angle)
             % (2 * Pi)
  IN  IF m > Pi THEN 2 * Pi - m ELSE m

\* a WALL cell lies on the segment from p to q and ends before q; with a margin
\* the cell begins more than the margin before q
WallBetween(p, q, margin) ==
  \E c \in CellsNear(p, q) :
    LET clip == Clip(p, q, c[1], c[2], FALSE)
    IN  /\ InGrid(c[1], c[2]) /\ ReadMap(c[1], c[2]) = WALL
        /\ RatLt(clip[1], clip[2]) /\ RatLt(clip[2], << 1, 1 >>)
        /\ Hypot(q.x - p.x, q.y - p.y) * (clip[1][2] - clip[1][1]) >= margin * clip[1][2]

C14_FovEdge ==
  shown # None =>
    /\ Separation > fov \div 2 => shown.drawn = None
    /\ (Separation < fov \div 2 /\ Clear(viewer, entity)) => shown.drawn # None

C14_Witness ==
  /\ shown # None /\ Separation = fov \div 2 - 1 /\ Clear(viewer, entity)
  /\ ~SamePoint(viewer, entity) /\ shown.drawn # None /\ shown.drawn.angleDiff > 0

\* ------------------------------------------------------ the screen columns
\* C15: the height of every wall column drawn is finite and positive, also
\* when the ray of the column has the distance zero.
C15_ColumnHeightFinite ==
  /\ \A i \in 1..Len(cols) :
       cols[i].ray # None => (IsFin(cols[i].lineH) /\ cols[i].lineH > 0)
  /\ walls # None =>
       \A i \in 1..Len(walls.columns) :
         walls.columns[i].ray # None =>
           (IsFin(walls.columns[i].wallHeight) /\ walls.columns[i].wallHeight > 0)

\* C18: every column of one draw3DView is what the position of the player at
\* the begin of the frame, its angle, the level and the column number give.
C18_ColumnsOfOneFrame ==
  \A i \in 1..Len(cols) :
    /\ cols[i].ox = frameAt.x /\ cols[i].oy = frameAt.y
    /\ cols[i] = Column(cols[i].x, frameAt.x, frameAt.y)

\* a step taken by castRay, by isInLineOfSight, by render or by a column of the view
QueryStep ==
  \/ pc # "idle"
  \/ qpc = "met" /\ qpc' = "seen"
  \/ qpc = "seen" /\ qpc' = "answered"
  \/ qpc = "looking" /\ qpc' = "answered"
  \/ dpc = "drawing" \/ dpc' = "drawing" \/ dpc' = "rendered"

\* the cells, width and height of the level and the x, y and angle of whoever looks
OnlyRead ==
  /\ UNCHANGED << worldMap, mapWidth, mapHeight >>
  /\ viewer' = viewer /\ entity' = entity
  /\ player'.x = player.x /\ player'.y = player.y /\ player'.angle = player.angle
  /\ (pc # "idle" /\ pc' # "idle") => UNCHANGED << px, py, angle >>

\* C11: a call of castRay, isInLineOfSight, render or the column projection
\* leaves the level (cells, width, height) and the viewer (x, y, angle) as they were.
C11_QueriesOnlyRead == [][QueryStep => OnlyRead]_vars

C11_Witness ==
  /\ qpc = "answered" /\ seen # None /\ seenBack # None
  /\ seen.value /\ ~SamePoint(viewer, entity) /\ worldMap = OddMap

\* a map of h rows of w cells each
WellFormed(m, w, h) == Len(m) = h /\ \A y \in 1..Len(m) : Len(m[y]) = w

C17_OneMapPerFrame ==
  \A i \in 1..Len(reads) :
    /\ reads[i].tiles = reads[i].ray.worldMap
    /\ reads[i].tiles = reads[1].tiles

\* the ray cast due east from the centre of cell (cx, cy) has returned
EastFrom(cx, cy) ==
  /\ pc = "done" /\ angle = 1
  /\ px = cx * Scale + Scale \div 2 /\ py = cy * Scale + Scale \div 2

\* C21: on the ring level the ray due east from (1.5, 1.5) hits at distance 8.5,
\* on a vertical grid line.
C21_RingEastIs8AndAHalf ==
  (worldMap = RingMap /\ EastFrom(1, 1)) =>
    (distance = 8 * Scale + Scale \div 2 /\ hitVertical)

\* C21 (amended): on the ring level the ray due east from (1.5, 1.5) hits the east
\* wall, whose near side is the grid line x = 9, at distance 7.5, on a vertical grid line.
C21_RingEastIs7AndAHalf ==
  (worldMap = RingMap /\ EastFrom(1, 1)) =>
    /\ distance = 7 * Scale + Scale \div 2 /\ hitVertical
    /\ mapX = 9 /\ mapY = 1 /\ tileType = WALL
    /\ px + distance = 9 * Scale

C21_Witness ==
  worldMap = RingMap /\ EastFrom(1, 1) /\ iter = 8

\* C22: on the embedded level the ray due east from (10.5, 12.5) steps through the
\* cells 11..18 of row 12, stops at the wall in column 19 at distance 8.5 on a
\* vertical grid line, and every further cast returns the same.
C22_EmbeddedGolden ==
  (worldMap = EmbeddedMap /\ EastFrom(10, 12)) =>
    /\ mapWidth = 21 /\ mapHeight = 16
    /\ distance = 8 * Scale + Scale \div 2 /\ hitVertical
    /\ path = [i \in 1..9 |-> << 10 + i, 12 >>]
    /\ \A i \in 1..8 : ReadMap(10 + i, 12) = FLOOR
    /\ ReadMap(19, 12) = WALL
    /\ prev # None => prev = Result

C22_Witness ==
  worldMap = EmbeddedMap /\ EastFrom(10, 12) /\ casts = MaxCasts /\ prev # None

\* C23: an entity straight ahead of the player (angleDiff = 0, also when the
\* player's angle is a full turn off), at a distance above zero, is drawn at
\* screenX = screenW / 2 whenever render draws it, and render draws it when
\* nothing but floor lies between the two.
C23_StraightAheadIsCentred ==
  (shown # None /\ Separation = 0 /\ ~SamePoint(viewer, entity)) =>
    /\ shown.drawn # None =>
          (shown.drawn.angleDiff = 0 /\ shown.drawn.screenX = (screenW \div 2) * Scale)
    /\ Clear(viewer, entity) => shown.drawn # None

C23_Witness ==
  /\ shown # None /\ shown.drawn # None /\ ~SamePoint(viewer, entity)
  /\ viewer.angle = AngleOf[Atan2(entity.y - viewer.y, entity.x - viewer.x)] + 2 * Pi
  /\ shown.drawn.screenX = (screenW \div 2) * Scale /\ shown.drawn.distance > Scale \div 2

\* ------------------------------------------------------ the player's moves
\* p is the centre of a FLOOR cell inside the grid
FloorCentre(p) ==
  /\ p.x % Scale = Scale \div 2 /\ p.y % Scale = Scale \div 2
  /\ InGrid(CellOf(p.x), CellOf(p.y))
  /\ ReadMap(CellOf(p.x), CellOf(p.y)) = FLOOR

\* C24: whenever the player is on the level and not in a move animation, it
\* stands on the centre of a FLOOR cell inside the grid.
C24_RestsOnFloorCentre ==
  (dpc # "unset" /\ ~player.isMoving) => FloorCentre(player)

\* every move that has ended has ended on the centre of a FLOOR cell inside the grid
MovesEndOnFloorCentre ==
  (dpc # "unset" /\ ~player.isMoving /\ player.endX # 0) => FloorCentre(player)

\* C25: isMoving and isTurning are never both true, and while one of the two
\* animations is in progress no step changes the player's direction or the
\* targets of the animations.
C25_OneAnimationAtATime ==
  /\ [](~(player.isMoving /\ player.isTurning))
  /\ [][Busy => /\ player'.direction = player.direction
                 /\ player'.endX = player.endX /\ player'.endY = player.endY
                 /\ player'.endAngle = player.endAngle
                 /\ player'.startX = player.startX /\ player'.startY = player.startY
                 /\ player'.startAngle = player.startAngle]_vars

C25_Witness ==
  /\ player.isTurning /\ ~player.isMoving /\ player.endAngle > Pi
  /\ player.angle # player.endAngle /\ player.angle # player.startAngle
\* the player is within the reach and in the sight of the monster
Adjacent ==
  /\ MonsterSees(monster, player)
  /\ FLt(distanceTo(monster, player), skeleton.sightRange)
  /\ distanceTo(monster, player) <= AdjacentRange

\* C27: a monster whose health is <= 0 is inactive, and no step moves it, changes its
\* AI state or its target, or lets it attack the player (lastAttackTime is the time of
\* its last attack); its health does not come back
C27_DeadMonsterRests ==
  /\ [](monster.health <= 0 => ~monster.active)
  /\ [][monster.health <= 0 =>
          /\ monster'.health <= 0 /\ ~monster'.active
          /\ monster'.x = monster.x /\ monster'.y = monster.y
          /\ monster'.state = monster.state
          /\ monster'.targetX = monster.targetX /\ monster'.targetY = monster.targetY
          /\ monster'.lastAttackTime = monster.lastAttackTime]_vars

\* a dead monster has just been updated with the player next to it and the cooldown over
C27_Witness ==
  /\ monster.health <= 0 /\ monster.state = "attack" /\ Adjacent
  /\ now - monster.lastAttackTime > attackCooldown
  /\ monster.isAttacking /\ monster.lastAttackAnimationUpdate = now

\* the player is out of the reach or out of the sight of the monster
Away == ~Adjacent

\* what Monster.update leaves of the monster apart from its animation counters
Behaviour(m) ==
  << m.x, m.y, m.active, m.health, m.state, m.isAttacking, m.targetX, m.targetY,
     m.lastSawPlayerTime, m.lastAttackTime, m.waitTime >>

\* an update changes nothing about the monster any more while the player stays
Settled ==
  /\ Behaviour(Monster_update(monster, FrameMs, player)) = Behaviour(monster)
  /\ Behaviour(Monster_update(monster, FrameMs, None)) = Behaviour(monster)

\* C28: a living monster in state "attack" whose player is no longer adjacent or no
\* longer in its line of sight leaves that state in a later update: it is never in a
\* state that no update changes while the player stays where it is
C28_AttackEnds ==
  ~(monster.state = "attack" /\ monster.health > 0 /\ Away /\ ~player.isMoving /\ Settled)

\* C26: once handleCollision has run, the projectile is collided and inactive for the rest
\* of its life, and no further update or handleCollision call moves it or changes the
\* health of the monster: the collision effects are applied at most once
C26_CollidesOnce ==
  /\ [](projectile # None /\ projectile.collided => ~projectile.active)
  /\ [][projectile # None /\ projectile.collided =>
          /\ projectile'.collided /\ ~projectile'.active
          /\ projectile'.x = projectile.x /\ projectile'.y = projectile.y
          /\ monster'.health = monster.health]_vars

\* a projectile has collided and the monster has lost health by it
C26_Witness ==
  /\ projectile # None /\ projectile.collided
  /\ monster.health < skeleton.health

InFlight == projectile # None /\ projectile.active

\* C29: a projectile in flight that is updated in every frame becomes inactive after
\* finitely many updates, and it is never active with a travelled distance that has
\* reached its range
C29_FlightEnds ==
  /\ [](InFlight => projectile.distance < projectile.range)
  /\ InFlight ~> (projectile # None /\ ~projectile.active)

\* a projectile that nothing stopped is inactive at the end of its range
C29_Witness ==
  /\ projectile # None /\ ~projectile.active /\ ~projectile.collided
  /\ projectile.distance >= projectile.range

\* getByType(t) holds exactly the stored entities of the type t, each once, and no
\* undefined entry
LookupConsistent(t) ==
  LET got == getByType(t)
  IN  /\ \A k \in 1..Len(got) : got[k] # None
      /\ \A j, k \in 1..Len(got) : j # k => got[j] # got[k]
      /\ {got[k] : k \in 1..Len(got)} =
           {entities[i] : i \in {j \in DOMAIN entities : entities[j].type = t}}

\* C30: after any sequence of add and remove calls getByType(t) returns exactly the stored
\* entities of the type t, each once and never an undefined entry
C30_LookupConsistent == \A t \in EntityTypes : LookupConsistent(t)

====
